---------------------------- MODULE Spec2Model ----------------------------
(***************************************************************************)
(* Model of the checkpointed task-tracking core of SongbirdAnalyzer        *)
(* (src/songbird-core/checkpoint_manager.py): task identity, the           *)
(* in-memory registry of RecordingTask records, the checkpoint file with   *)
(* its temp-file-then-replace save, and the command line front end.        *)
(***************************************************************************)
EXTENDS Integers, Sequences, FiniteSets, TLC

VARIABLES
    fs,       \* the file system: path -> content of the file at that path
    tasks,    \* self.tasks of the live manager: insertion-ordered dict id -> RecordingTask
    meta,     \* self.session_metadata of the live manager
    pc,       \* position of the process that uses the checkpoint path
    now,      \* reading of datetime.now(), a counter
    ret,      \* what the last operation returned, or the command printed and exited with
    hist,     \* history: what was persisted before the running operation, what it means to persist
    drv,      \* position of the batch driver that issues the commands
    probe,    \* the composite keys under test
    inv       \* the invocations that run side by side on one checkpoint path

vars == <<fs, tasks, meta, pc, now, ret, hist, drv, probe, inv>>

(***************************************************************************)
(* Bounds and input domains                                                *)
(***************************************************************************)
\* The clock stops advancing at MaxTime.
MaxTime == 1
MaxLen == 1
MaxEntries == 2

\* Python's None, for string- and dict-valued fields.
None == "None"
\* Python's None for a timestamp (session_metadata['last_updated'] before a save).
NoTime == -1

\* Composite keys (speaker, mode_name, source_filename) callers use; the
\* second has the empty variant.
K1 == <<"spk01", "ModeA", "clip1.wav">>
K2 == <<"spk01", "", "clip2.wav">>
Keys == { K1, K2 }
\* register arguments: a key and an output path.
RegisterArgs == { <<K1, "out/a.wav">>, <<K1, "out/b.wav">>, <<K2, "out/a.wav">> }
\* Python's falsy values an optional argument may take besides None.
EmptyDict == "{}"

(***************************************************************************)
(* TaskStatus (lines 21-27): enum members, and their string values         *)
(***************************************************************************)
PENDING     == <<"TaskStatus", "PENDING">>
COMPLETED   == <<"TaskStatus", "COMPLETED">>
FAILED      == <<"TaskStatus", "FAILED">>
SKIPPED     == <<"TaskStatus", "SKIPPED">>
IN_PROGRESS == <<"TaskStatus", "IN_PROGRESS">>
TaskStatus  == { PENDING, COMPLETED, FAILED, SKIPPED, IN_PROGRESS }

\* status.value
StatusValue(member) == member[2]
\* TaskStatus(value): the member with that value; ValueError when there is none.
IsStatusValue(v) == \E m \in TaskStatus : StatusValue(m) = v
TaskStatusOf(v) == CHOOSE m \in TaskStatus : StatusValue(m) = v

(***************************************************************************)
(* Task identity (lines 46-50, 166-167, 175-176)                           *)
(***************************************************************************)
\* hashlib.md5(s.encode()).hexdigest()[:12]: the digest is a function of the
\* encoded string alone and is taken to be collision-free on it.
Md5Hex12(s) == "md5(" \o s \o ")"

\* Variant: the output path is part of the hashed string.
TaskIdOfWithOutput(task) ==
    LET task_string == task.speaker \o "|" \o task.mode_name \o "|" \o task.source_filename
                       \o "|" \o task.output_path
    IN  Md5Hex12(task_string)

\* RecordingTask.task_id
TaskIdOf(task) ==
    LET task_string == task.speaker \o "|" \o task.mode_name \o "|" \o task.source_filename
    IN  Md5Hex12(task_string)

(***************************************************************************)
(* Python dict with insertion order: a sequence of [id, task] entries      *)
(***************************************************************************)
DictKeys(d) == { d[i].id : i \in 1..Len(d) }
DictHas(d, k) == \E i \in 1..Len(d) : d[i].id = k
DictIndex(d, k) == CHOOSE i \in 1..Len(d) : d[i].id = k
DictGet(d, k) == d[DictIndex(d, k)].task
\* Variant: a list of pairs, every assignment appended.
DictSetAppend(d, k, v) == Append(d, [id |-> k, task |-> v])
\* Variant: an existing key is removed and put last.
DictSetMoveToEnd(d, k, v) ==
    Append(SelectSeq(d, LAMBDA x : x.id # k), [id |-> k, task |-> v])
\* d[k] = v : an existing key keeps its position, a new key goes last.
DictSet(d, k, v) ==
    IF DictHas(d, k)
    THEN [i \in 1..Len(d) |-> IF d[i].id = k THEN [id |-> k, task |-> v] ELSE d[i]]
    ELSE Append(d, [id |-> k, task |-> v])

(***************************************************************************)
(* RecordingTask (lines 30-44)                                             *)
(***************************************************************************)
\* Variant: a new record starts IN_PROGRESS.
NewTaskInProgress(speaker, mode_name, source_filename, output_path, t) ==
    [ speaker |-> speaker, mode_name |-> mode_name,
      source_filename |-> source_filename, output_path |-> output_path,
      status |-> IN_PROGRESS, timestamp |-> t,
      error_message |-> None, validation_result |-> None ]

\* RecordingTask(speaker, mode_name, source_filename, output_path): the
\* defaults of the dataclass, and __post_init__ stamping the time.
NewTask(speaker, mode_name, source_filename, output_path, t) ==
    [ speaker |-> speaker, mode_name |-> mode_name,
      source_filename |-> source_filename, output_path |-> output_path,
      status |-> PENDING, timestamp |-> t,
      error_message |-> None, validation_result |-> None ]

\* `if error_message:` / `if validation_result:` -- Python truthiness.
Truthy(x) == x # None /\ x # "" /\ x # EmptyDict

(***************************************************************************)
(* Files                                                                   *)
(***************************************************************************)
\* A path: directory, stem and suffix of the file name.
CheckpointFile == [dir |-> "ckpt", stem |-> "session", suffix |-> ".json"]
LegacyFile     == [dir |-> "ckpt", stem |-> "progress", suffix |-> ".txt"]
\* Path.with_suffix(suffix)
WithSuffix(path, suffix) == [path EXCEPT !.suffix = suffix]
\* Variant: the text is written to the checkpoint path itself.
TempFileInPlace(path) == path
\* temp_file = self.checkpoint_file.with_suffix('.tmp')   (line 121)
TempFile(path) == WithSuffix(path, ".tmp")
Paths == { CheckpointFile, TempFile(CheckpointFile), LegacyFile }

NoFile    == [kind |-> "absent"]
\* open(path, 'w') of a file nothing was written to yet: zero length.
EmptyFile == [kind |-> "empty"]
\* The text json.dump wrote so far when it has not finished: the first k task objects.
Truncated(data, k) == [kind |-> "truncated", metadata |-> data.metadata,
                       tasks |-> SubSeq(data.tasks, 1, k)]
\* The whole text of json.dump(data, f, indent=2), closed.
JsonText(data) == [kind |-> "json", metadata |-> data.metadata, tasks |-> data.tasks]

\* Variant: the serialised record loses its error_message.
AsDictNoError(task) ==
    [ speaker |-> task.speaker, mode_name |-> task.mode_name,
      source_filename |-> task.source_filename, output_path |-> task.output_path,
      status |-> StatusValue(task.status), timestamp |-> task.timestamp,
      error_message |-> None,
      validation_result |-> task.validation_result ]
\* asdict(task), then status replaced by status.value (lines 113-118)
AsDict(task) ==
    [ speaker |-> task.speaker, mode_name |-> task.mode_name,
      source_filename |-> task.source_filename, output_path |-> task.output_path,
      status |-> StatusValue(task.status), timestamp |-> task.timestamp,
      error_message |-> task.error_message,
      validation_result |-> task.validation_result ]

\* The data structure save_checkpoint prepares (lines 111-118).
CheckpointData(m, d) ==
    [ metadata |-> m, tasks |-> [i \in 1..Len(d) |-> AsDict(d[i].task)] ]

(***************************************************************************)
(* CheckpointManager.__init__ and load_checkpoint (lines 56-102)           *)
(***************************************************************************)
FreshMetadata(t) ==
    [ created |-> t, last_updated |-> NoTime,
      session_type |-> "recording", version |-> "2.0" ]

RequiredFields == { "speaker", "mode_name", "source_filename", "output_path", "status" }

\* A task object of the file that the loop body (lines 86-95) accepts:
\* no KeyError and no ValueError.
GoodEntry(e) == RequiredFields \subseteq DOMAIN e /\ IsStatusValue(e.status)

\* task_data.get(name): None when the key is missing.
GetField(e, name, default) == IF name \in DOMAIN e THEN e[name] ELSE default

\* Variant: the validation_result of the file is not read.
TaskFromDictNoValidation(e, t) ==
    LET ts == GetField(e, "timestamp", NoTime)
    IN  [ speaker |-> e.speaker, mode_name |-> e.mode_name,
          source_filename |-> e.source_filename, output_path |-> e.output_path,
          status |-> TaskStatusOf(e.status),
          timestamp |-> IF ts = NoTime THEN t ELSE ts,
          error_message |-> GetField(e, "error_message", None),
          validation_result |-> None ]

TaskFromDict(e, t) ==
    LET ts == GetField(e, "timestamp", NoTime)
    IN  [ speaker |-> e.speaker, mode_name |-> e.mode_name,
          source_filename |-> e.source_filename, output_path |-> e.output_path,
          status |-> TaskStatusOf(e.status),
          timestamp |-> IF ts = NoTime THEN t ELSE ts,
          error_message |-> GetField(e, "error_message", None),
          validation_result |-> GetField(e, "validation_result", None) ]

\* The for loop of lines 85-96 from entry i on: records are inserted one by
\* one and the loop stops at the first entry that raises.
RECURSIVE LoadTasks(_, _, _, _)
LoadTasks(list, i, d, t) ==
    IF i > Len(list) THEN [ok |-> TRUE, tasks |-> d]
    ELSE IF ~GoodEntry(list[i]) THEN [ok |-> FALSE, tasks |-> d]
    ELSE LET task == TaskFromDict(list[i], t)
         IN  LoadTasks(list, i + 1, DictSet(d, TaskIdOf(task), task), t)

\* Variant: the metadata of the file is ignored, the fresh ones stay.
MetaUpdateKeepFresh(m, fm) == m
\* dict.update: the keys of the file's metadata replace the fresh ones.
MetaUpdate(m, fm) == [k \in DOMAIN m |-> IF k \in DOMAIN fm THEN fm[k] ELSE m[k]]

\* load_checkpoint on a manager holding (m, d): what it returns and leaves.
LoadCheckpoint(f, m, d, t) ==
    IF f.kind = "absent" THEN [ok |-> FALSE, meta |-> m, tasks |-> d]
    ELSE IF f.kind # "json" THEN [ok |-> FALSE, meta |-> m, tasks |-> d]
    ELSE LET l == LoadTasks(f.tasks, 1, d, t)
         IN  [ok |-> l.ok, meta |-> MetaUpdate(m, f.metadata), tasks |-> l.tasks]

\* Variant: the manager never loads, it starts from an empty registry.
ConstructEmpty(f, t) == [ok |-> FALSE, meta |-> FreshMetadata(t), tasks |-> <<>>]
\* CheckpointManager(checkpoint_file)
Construct(f, t) == LoadCheckpoint(f, FreshMetadata(t), <<>>, t)

(***************************************************************************)
(* save_checkpoint (lines 104-131), without I/O errors                     *)
(***************************************************************************)
\* line 108
StampMetadata(m, t) == [m EXCEPT !.last_updated = t]
\* open(path, 'w'): the file exists and is empty.
OpenW(f, path) == [f EXCEPT ![path] = EmptyFile]
\* What the file holds once `text` went through the open handle.
WriteText(f, path, text) == [f EXCEPT ![path] = text]
\* Path.replace(target): the target takes the source's content and the source
\* path is gone; replacing a path by itself changes nothing.
Replace(f, source, target) ==
    IF source = target THEN f
    ELSE [f EXCEPT ![target] = f[source], ![source] = NoFile]

\* save_checkpoint run from its first to its last line.
SaveCheckpoint(f, path, m, d, t) ==
    LET m2 == StampMetadata(m, t)
        temp_file == TempFile(path)
        f1 == OpenW(f, temp_file)
        f2 == WriteText(f1, temp_file, JsonText(CheckpointData(m2, d)))
    IN  [ok |-> TRUE, meta |-> m2, fs |-> Replace(f2, temp_file, path)]

(***************************************************************************)
(* Registry operations on the in-memory dict                               *)
(***************************************************************************)
\* Variant: insert-or-return-existing, a record already present is kept.
RegisterMemKeepExisting(d, speaker, mode_name, source_filename, output_path, t) ==
    LET task == NewTask(speaker, mode_name, source_filename, output_path, t)
    IN  IF DictHas(d, TaskIdOf(task)) THEN d ELSE DictSet(d, TaskIdOf(task), task)
\* register_task, lines 135-142
RegisterMem(d, speaker, mode_name, source_filename, output_path, t) ==
    LET task == NewTask(speaker, mode_name, source_filename, output_path, t)
    IN  DictSet(d, TaskIdOf(task), task)

\* Variant: a COMPLETED record keeps its status.
UpdateMemKeepCompleted(d, task_id, status, error_message, validation_result, t) ==
    LET old == DictGet(d, task_id)
        new == [old EXCEPT
                  !.status = IF old.status = COMPLETED THEN COMPLETED ELSE status,
                  !.timestamp = t,
                  !.error_message = IF Truthy(error_message) THEN error_message ELSE @,
                  !.validation_result = IF Truthy(validation_result) THEN validation_result ELSE @]
    IN  DictSet(d, task_id, new)

\* update_task_status, lines 152-159
UpdateMem(d, task_id, status, error_message, validation_result, t) ==
    LET old == DictGet(d, task_id)
        new == [old EXCEPT
                  !.status = status,
                  !.timestamp = t,
                  !.error_message = IF Truthy(error_message) THEN error_message ELSE @,
                  !.validation_result = IF Truthy(validation_result) THEN validation_result ELSE @]
    IN  DictSet(d, task_id, new)

\* Variant: the status is compared with PENDING.
IsTaskCompletedValPending(d, speaker, mode_name, source_filename) ==
    LET task_string == speaker \o "|" \o mode_name \o "|" \o source_filename
        task_id == Md5Hex12(task_string)
    IN  IF DictHas(d, task_id) THEN DictGet(d, task_id).status = PENDING ELSE FALSE
\* Variant: a skipped task counts as done.
IsTaskCompletedValOrSkipped(d, speaker, mode_name, source_filename) ==
    LET task_string == speaker \o "|" \o mode_name \o "|" \o source_filename
        task_id == Md5Hex12(task_string)
    IN  IF DictHas(d, task_id) THEN DictGet(d, task_id).status \in {COMPLETED, SKIPPED} ELSE FALSE
\* is_task_completed, lines 164-171
IsTaskCompletedVal(d, speaker, mode_name, source_filename) ==
    LET task_string == speaker \o "|" \o mode_name \o "|" \o source_filename
        task_id == Md5Hex12(task_string)
    IN  IF DictHas(d, task_id) THEN DictGet(d, task_id).status = COMPLETED ELSE FALSE

\* get_task_by_params, lines 173-177: the record, or None
NoTask == [absent |-> TRUE]
GetTaskByParamsVal(d, speaker, mode_name, source_filename) ==
    LET task_string == speaker \o "|" \o mode_name \o "|" \o source_filename
        task_id == Md5Hex12(task_string)
    IN  IF DictHas(d, task_id) THEN DictGet(d, task_id) ELSE NoTask

\* Variant: SKIPPED records are reset as well.
ResetMemSkipped(d) ==
    [i \in 1..Len(d) |->
        IF d[i].task.status \in {FAILED, SKIPPED}
        THEN [d[i] EXCEPT !.task.status = PENDING, !.task.error_message = None]
        ELSE d[i]]

\* reset_failed_tasks, lines 205-210
ResetMem(d) ==
    [i \in 1..Len(d) |->
        IF d[i].task.status = FAILED
        THEN [d[i] EXCEPT !.task.status = PENDING, !.task.error_message = None]
        ELSE d[i]]
ResetCount(d) == Cardinality({i \in 1..Len(d) : d[i].task.status = FAILED})



\* Variant: records IN_PROGRESS are not counted.
GetSummaryValNoInProgress(d, m) ==
    LET total_tasks == Len(d)
    IN  [ total_tasks |-> total_tasks,
          status_counts |-> [v \in {StatusValue(st) : st \in TaskStatus} |->
                                IF v = StatusValue(IN_PROGRESS) THEN 0
                                ELSE Cardinality({i \in 1..Len(d) : d[i].task.status = TaskStatusOf(v)})],
          completion_rate |-> IF total_tasks > 0
                              THEN [num |-> Cardinality({i \in 1..Len(d) : d[i].task.status = COMPLETED}) * 100,
                                    den |-> total_tasks]
                              ELSE [num |-> 0, den |-> 1],
          session_created |-> m.created,
          last_updated |-> m.last_updated ]
\* Variant: the rate counts SKIPPED records as completed.
GetSummaryValRateWithSkipped(d, m) ==
    LET total_tasks == Len(d)
    IN  [ total_tasks |-> total_tasks,
          status_counts |-> [v \in {StatusValue(st) : st \in TaskStatus} |->
                                Cardinality({i \in 1..Len(d) : d[i].task.status = TaskStatusOf(v)})],
          completion_rate |-> IF total_tasks > 0
                              THEN [num |-> Cardinality({i \in 1..Len(d) :
                                                d[i].task.status \in {COMPLETED, SKIPPED}}) * 100,
                                    den |-> total_tasks]
                              ELSE [num |-> 0, den |-> 1],
          session_created |-> m.created,
          last_updated |-> m.last_updated ]
\* get_summary, lines 179-197; the completion rate count / total * 100 is
\* kept as the exact fraction num / den.
StatusCount(d, status) == Cardinality({i \in 1..Len(d) : d[i].task.status = status})
GetSummaryVal(d, m) ==
    LET total_tasks == Len(d)
    IN  [ total_tasks |-> total_tasks,
          status_counts |-> [v \in {StatusValue(st) : st \in TaskStatus} |->
                                StatusCount(d, TaskStatusOf(v))],
          completion_rate |-> IF total_tasks > 0
                              THEN [num |-> StatusCount(d, COMPLETED) * 100, den |-> total_tasks]
                              ELSE [num |-> 0, den |-> 1],
          session_created |-> m.created,
          last_updated |-> m.last_updated ]

\* get_failed_tasks, lines 199-201
GetFailedTasksVal(d) ==
    LET RECURSIVE Pick(_)
        Pick(i) == IF i > Len(d) THEN <<>>
                   ELSE IF d[i].task.status = FAILED THEN <<d[i].task>> \o Pick(i + 1)
                   ELSE Pick(i + 1)
    IN  Pick(1)

\* The data line of one record, lines 225-226.
LegacyLine(task) ==
    task.speaker \o "|" \o task.mode_name \o "|" \o task.source_filename \o "|"
      \o task.output_path \o "|" \o StatusValue(task.status) \o "|" \o ToString(task.timestamp)

\* Variant: the file is opened for appending, lines an earlier export left
\* stay in front.
ExportLegacyFormatAppend(f, legacy_file, d, t) ==
    [f EXCEPT ![legacy_file] =
        [kind |-> "legacy",
         header |-> << "# Recording Progress Checkpoint File",
                       "# Generated on " \o ToString(t),
                       "# Format: speaker|mode_name|source_filename|output_path|status|timestamp" >>,
         lines |-> (IF f[legacy_file].kind = "legacy" THEN f[legacy_file].lines ELSE <<>>)
                      \o [i \in 1..Len(d) |-> LegacyLine(d[i].task)]]]

\* export_legacy_format, lines 216-231, without I/O errors: the file system
\* after the legacy file is opened for writing and written to the end.
ExportLegacyFormat(f, legacy_file, d, t) ==
    [f EXCEPT ![legacy_file] =
        [kind |-> "legacy",
         header |-> << "# Recording Progress Checkpoint File",
                       "# Generated on " \o ToString(t),
                       "# Format: speaker|mode_name|source_filename|output_path|status|timestamp" >>,
         lines |-> [i \in 1..Len(d) |-> LegacyLine(d[i].task)]]]

(***************************************************************************)
(* State shared by the specifications                                      *)
(***************************************************************************)
file == fs[CheckpointFile]
tmp  == fs[TempFile(CheckpointFile)]

\* No manager is alive: nothing in memory.
NoMeta == [ created |-> NoTime, last_updated |-> NoTime,
            session_type |-> "recording", version |-> "2.0" ]
NoRet  == [op |-> "none", val |-> None, done |-> TRUE]
\* What the last register / complete / fail commands did for a key.
NoScen == [phase |-> "none", id |-> None]
NoHist == [before |-> <<>>, intent |-> <<>>, closed |-> NoFile, installed |-> NoFile,
           killed |-> FALSE, scen |-> [k \in Keys |-> NoScen]]
NoDrv  == [step |-> "off", i |-> 0, tid |-> None, skipped |-> FALSE, crashes |-> 0]
NoProbe == [a |-> <<>>, b |-> <<>>]
\* An invocation that has not started.
Idle == [ pc |-> "idle", argv |-> <<>>, tasks |-> <<>>, meta |-> NoMeta, out |-> None,
          exit |-> 0, handle |-> "none", overlapped |-> FALSE, saved |-> 0 ]
NoInv == [i \in {1, 2} |-> Idle]

\* Task ids a caller may pass: the ids of the keys, and one no key has.
KeyId(k) == Md5Hex12(k[1] \o "|" \o k[2] \o "|" \o k[3])
UnknownId == Md5Hex12("no such task")

\* update_task_status arguments: task id, status, error_message, validation_result.
UpdateArgs ==
    { <<KeyId(K1), st, e[1], e[2]>> :
         st \in TaskStatus, e \in { <<None, None>>, <<"e1", None>>, <<None, "v1">> } }
    \cup { <<KeyId(K1), FAILED, "", EmptyDict>>, <<KeyId(K1), COMPLETED, "e2", "v2">>,
           <<KeyId(K2), COMPLETED, None, None>>, <<KeyId(K2), FAILED, "e1", None>>,
           <<UnknownId, COMPLETED, None, None>> }

\* The program starts on a path that holds no checkpoint.
Init ==
    /\ fs = [p \in Paths |-> NoFile]
    /\ tasks = <<>>
    /\ meta = NoMeta
    /\ pc = "none"
    /\ now = 0
    /\ ret = NoRet
    /\ hist = NoHist
    /\ drv = NoDrv
    /\ probe = NoProbe
    /\ inv = NoInv

(***************************************************************************)
(* A client process that uses one CheckpointManager as a library; every    *)
(* call runs to its end.                                                   *)
(***************************************************************************)
\* manager = CheckpointManager(checkpoint_file)   (lines 56-70)
New ==
    /\ pc = "none"
    /\ LET c == Construct(file, now)
       IN  /\ tasks' = c.tasks
           /\ meta' = c.meta
           /\ ret' = [op |-> "new", val |-> c.ok, done |-> TRUE]
    /\ pc' = "ready"
    /\ UNCHANGED <<fs, now, hist>>
    /\ UNCHANGED <<drv, probe, inv>>

\* The process ends; its memory is gone.
Exit ==
    /\ pc = "ready"
    /\ pc' = "none"
    /\ tasks' = <<>>
    /\ meta' = NoMeta
    /\ UNCHANGED <<fs, now, ret, hist>>
    /\ UNCHANGED <<drv, probe, inv>>

\* manager.save_checkpoint()   (lines 104-131)
Save ==
    /\ pc = "ready"
    /\ LET s == SaveCheckpoint(fs, CheckpointFile, meta, tasks, now)
       IN  /\ meta' = s.meta
           /\ fs' = s.fs
           /\ ret' = [op |-> "save_checkpoint", val |-> s.ok, done |-> TRUE]
    /\ UNCHANGED <<tasks, pc, now, hist>>
    /\ UNCHANGED <<drv, probe, inv>>

\* manager.register_task(speaker, mode_name, source_filename, output_path)  (lines 133-144)
RegisterTask(speaker, mode_name, source_filename, output_path) ==
    /\ pc = "ready"
    /\ LET d == RegisterMem(tasks, speaker, mode_name, source_filename, output_path, now)
           s == SaveCheckpoint(fs, CheckpointFile, meta, d, now)
       IN  /\ tasks' = d
           /\ meta' = s.meta
           /\ fs' = s.fs
           /\ ret' = [op |-> "register_task",
                      val |-> TaskIdOf(NewTask(speaker, mode_name, source_filename, output_path, now)),
                      done |-> TRUE]
    /\ UNCHANGED <<pc, now, hist>>
    /\ UNCHANGED <<drv, probe, inv>>

\* Variant: the checkpoint is saved before the id is looked up.
UpdateTaskStatusSaveFirst(task_id, status, error_message, validation_result) ==
    /\ pc = "ready"
    /\ IF ~DictHas(tasks, task_id)
       THEN LET s == SaveCheckpoint(fs, CheckpointFile, meta, tasks, now)
            IN  /\ ret' = [op |-> "update_task_status", val |-> FALSE, done |-> TRUE]
                /\ meta' = s.meta
                /\ fs' = s.fs
                /\ UNCHANGED tasks
       ELSE LET d == UpdateMem(tasks, task_id, status, error_message, validation_result, now)
                s == SaveCheckpoint(fs, CheckpointFile, meta, d, now)
            IN  /\ tasks' = d
                /\ meta' = s.meta
                /\ fs' = s.fs
                /\ ret' = [op |-> "update_task_status", val |-> TRUE, done |-> TRUE]
    /\ UNCHANGED <<pc, now, hist>>
    /\ UNCHANGED <<drv, probe, inv>>

\* manager.update_task_status(task_id, status, error_message, validation_result)  (lines 146-162)
UpdateTaskStatus(task_id, status, error_message, validation_result) ==
    /\ pc = "ready"
    /\ IF ~DictHas(tasks, task_id)
       THEN /\ ret' = [op |-> "update_task_status", val |-> FALSE, done |-> TRUE]
            /\ UNCHANGED <<tasks, meta, fs>>
       ELSE LET d == UpdateMem(tasks, task_id, status, error_message, validation_result, now)
                s == SaveCheckpoint(fs, CheckpointFile, meta, d, now)
            IN  /\ tasks' = d
                /\ meta' = s.meta
                /\ fs' = s.fs
                /\ ret' = [op |-> "update_task_status", val |-> TRUE, done |-> TRUE]
    /\ UNCHANGED <<pc, now, hist>>
    /\ UNCHANGED <<drv, probe, inv>>

\* manager.is_task_completed(speaker, mode_name, source_filename)  (lines 164-171)
IsTaskCompleted(speaker, mode_name, source_filename) ==
    /\ pc = "ready"
    /\ ret' = [op |-> "is_task_completed",
               val |-> IsTaskCompletedVal(tasks, speaker, mode_name, source_filename),
               done |-> TRUE]
    /\ UNCHANGED <<fs, tasks, meta, pc, now, hist>>
    /\ UNCHANGED <<drv, probe, inv>>

\* manager.get_task_by_params(speaker, mode_name, source_filename)  (lines 173-177)
GetTaskByParams(speaker, mode_name, source_filename) ==
    /\ pc = "ready"
    /\ ret' = [op |-> "get_task_by_params",
               val |-> GetTaskByParamsVal(tasks, speaker, mode_name, source_filename),
               done |-> TRUE]
    /\ UNCHANGED <<fs, tasks, meta, pc, now, hist>>
    /\ UNCHANGED <<drv, probe, inv>>

\* Variant: the reset saves also when no record was reset.
ResetFailedTasksAlwaysSave ==
    /\ pc = "ready"
    /\ LET reset_count == ResetCount(tasks)
           d == ResetMem(tasks)
           s == SaveCheckpoint(fs, CheckpointFile, meta, d, now)
       IN  /\ tasks' = d
           /\ ret' = [op |-> "reset_failed_tasks", val |-> reset_count, done |-> TRUE]
           /\ meta' = s.meta
           /\ fs' = s.fs
    /\ UNCHANGED <<pc, now, hist>>
    /\ UNCHANGED <<drv, probe, inv>>

\* Variant: the reset is not saved.
ResetFailedTasksNoSave ==
    /\ pc = "ready"
    /\ tasks' = ResetMem(tasks)
    /\ ret' = [op |-> "reset_failed_tasks", val |-> ResetCount(tasks), done |-> TRUE]
    /\ UNCHANGED <<meta, fs, pc, now, hist>>
    /\ UNCHANGED <<drv, probe, inv>>

\* manager.reset_failed_tasks()  (lines 203-214)
ResetFailedTasks ==
    /\ pc = "ready"
    /\ LET reset_count == ResetCount(tasks)
           d == ResetMem(tasks)
           s == SaveCheckpoint(fs, CheckpointFile, meta, d, now)
       IN  /\ tasks' = d
           /\ ret' = [op |-> "reset_failed_tasks", val |-> reset_count, done |-> TRUE]
           /\ IF reset_count > 0
              THEN /\ meta' = s.meta
                   /\ fs' = s.fs
              ELSE UNCHANGED <<meta, fs>>
    /\ UNCHANGED <<pc, now, hist>>
    /\ UNCHANGED <<drv, probe, inv>>

Library ==
    \/ New
    \/ Exit
    \/ Save
    \/ \E a \in RegisterArgs : RegisterTask(a[1][1], a[1][2], a[1][3], a[2])
    \/ \E a \in UpdateArgs : UpdateTaskStatus(a[1], a[2], a[3], a[4])
    \/ \E k \in Keys : IsTaskCompleted(k[1], k[2], k[3])
    \/ \E k \in Keys : GetTaskByParams(k[1], k[2], k[3])
    \/ ResetFailedTasks

Next == Library

\* The library under a client whose calls all happen at one clock reading.
Spec == Init /\ [][Next]_vars

(***************************************************************************)
(* The same client, with save_checkpoint taken line by line and a process  *)
(* that may be killed between any two lines                                *)
(***************************************************************************)
\* Time passes between any two steps.
Tick ==
    /\ now < MaxTime
    /\ now' = now + 1
    /\ UNCHANGED <<fs, tasks, meta, pc, ret, hist>>
    /\ UNCHANGED <<drv, probe, inv>>

\* The registry a manager constructed on this file system would hold.
Persisted(f, t) == Construct(f[CheckpointFile], t).tasks

\* A mutating call changed the registry to d and now calls save_checkpoint.
EnterSave(op, val, d) ==
    /\ tasks' = d
    /\ pc' = "save_begin"
    /\ ret' = [op |-> op, val |-> val, done |-> FALSE]
    /\ hist' = [hist EXCEPT !.before = Persisted(fs, now), !.intent = d, !.killed = FALSE]
    /\ UNCHANGED <<fs, meta, now>>

\* register_task, lines 135-142, up to the call of save_checkpoint
BeginRegister(speaker, mode_name, source_filename, output_path) ==
    /\ pc = "ready"
    /\ EnterSave("register_task",
                 TaskIdOf(NewTask(speaker, mode_name, source_filename, output_path, now)),
                 RegisterMem(tasks, speaker, mode_name, source_filename, output_path, now))
    /\ UNCHANGED <<drv, probe, inv>>

\* update_task_status, lines 149-159, up to the call of save_checkpoint
BeginUpdate(task_id, status, error_message, validation_result) ==
    /\ pc = "ready"
    /\ IF ~DictHas(tasks, task_id)
       THEN /\ ret' = [op |-> "update_task_status", val |-> FALSE, done |-> TRUE]
            /\ UNCHANGED <<fs, tasks, meta, pc, now, hist>>
       ELSE EnterSave("update_task_status", TRUE,
                      UpdateMem(tasks, task_id, status, error_message, validation_result, now))
    /\ UNCHANGED <<drv, probe, inv>>

\* reset_failed_tasks, lines 205-212, up to the call of save_checkpoint
BeginReset ==
    /\ pc = "ready"
    /\ IF ResetCount(tasks) > 0
       THEN EnterSave("reset_failed_tasks", ResetCount(tasks), ResetMem(tasks))
       ELSE /\ ret' = [op |-> "reset_failed_tasks", val |-> 0, done |-> TRUE]
            /\ UNCHANGED <<fs, tasks, meta, pc, now, hist>>
    /\ UNCHANGED <<drv, probe, inv>>

\* lines 108-122: the metadata is stamped, the data prepared and the temporary
\* file opened for writing.
SaveOpen ==
    /\ pc = "save_begin"
    /\ meta' = StampMetadata(meta, now)
    /\ fs' = OpenW(fs, TempFile(CheckpointFile))
    /\ pc' = "save_open"
    /\ UNCHANGED <<tasks, now, ret, hist>>
    /\ UNCHANGED <<drv, probe, inv>>

\* line 123 under way: part of the text has reached the temporary file.
SaveWrite ==
    /\ pc = "save_open"
    /\ \E k \in 0..Len(tasks) :
          fs' = WriteText(fs, TempFile(CheckpointFile),
                          Truncated(CheckpointData(meta, tasks), k))
    /\ pc' = "save_write"
    /\ UNCHANGED <<tasks, meta, now, ret, hist>>
    /\ UNCHANGED <<drv, probe, inv>>

\* lines 122-123 finished: the whole text is in the temporary file, closed.
SaveClose ==
    /\ pc \in {"save_open", "save_write"}
    /\ fs' = WriteText(fs, TempFile(CheckpointFile), JsonText(CheckpointData(meta, tasks)))
    /\ pc' = "save_close"
    /\ hist' = [hist EXCEPT !.closed = JsonText(CheckpointData(meta, tasks))]
    /\ UNCHANGED <<tasks, meta, now, ret>>
    /\ UNCHANGED <<drv, probe, inv>>

\* line 126
SaveReplace ==
    /\ pc = "save_close"
    /\ fs' = Replace(fs, TempFile(CheckpointFile), CheckpointFile)
    /\ pc' = "save_done"
    /\ hist' = [hist EXCEPT !.installed = hist.closed]
    /\ UNCHANGED <<tasks, meta, now, ret>>
    /\ UNCHANGED <<drv, probe, inv>>

\* line 127 and the lines after the call: the operation returns to the client.
SaveReturn ==
    /\ pc = "save_done"
    /\ ret.op # "main"
    /\ pc' = "ready"
    /\ ret' = [ret EXCEPT !.done = TRUE]
    /\ UNCHANGED <<fs, tasks, meta, now, hist>>
    /\ UNCHANGED <<drv, probe, inv>>

\* The process is killed: its memory is gone, the files stay as they are.
Crash ==
    /\ pc # "none"
    /\ pc' = "none"
    /\ tasks' = <<>>
    /\ meta' = NoMeta
    /\ hist' = [hist EXCEPT !.killed = pc \notin {"ready"}]
    /\ UNCHANGED <<fs, now, ret>>
    /\ UNCHANGED <<probe, inv>>

\* The client is killed; no driver is involved.
Kill == Crash /\ UNCHANGED drv

\* The calls of the killable client.
CrashRegisterArgs == { <<K1, "out/a.wav">>, <<K2, "out/a.wav">> }
CrashUpdateArgs ==
    { <<KeyId(K1), COMPLETED, None, None>>, <<KeyId(K1), FAILED, "e1", None>>,
      <<UnknownId, COMPLETED, None, None>> }

Killable ==
    \/ New
    \/ Exit
    \/ \E a \in CrashRegisterArgs : BeginRegister(a[1][1], a[1][2], a[1][3], a[2])
    \/ \E a \in CrashUpdateArgs : BeginUpdate(a[1], a[2], a[3], a[4])
    \/ BeginReset
    \/ SaveOpen
    \/ SaveWrite
    \/ SaveClose
    \/ SaveReplace
    \/ SaveReturn
    \/ Kill

NextCrash == Killable

\* The library under a client that may be killed at any line of a save.
SpecCrash == Init /\ [][NextCrash]_vars

(***************************************************************************)
(* main(), the command line (lines 234-310). argv is sys.argv[1:].         *)
(***************************************************************************)
P == "ckpt/session.json"
L == "ckpt/progress.txt"
\* Path(checkpoint_file)
PathOf(arg) == IF arg = L THEN LegacyFile ELSE CheckpointFile

\* What a command did when it needs no save: printed text, exit code, files.
Done(out, exit, f) == [kind |-> "exit", out |-> out, exit |-> exit, fs |-> f, tasks |-> <<>>]
\* A command that changed the registry to d and goes on to save it.
ThenSave(out, exit, f, d) == [kind |-> "save", out |-> out, exit |-> exit, fs |-> f, tasks |-> d]

\* Variant: the answer is printed and the exit code is always 0.
CmdIsCompletedExitZero(argv, d, f) ==
    IF Len(argv) + 1 # 6 THEN Done("Usage: is_completed", 1, f)
    ELSE Done(IF IsTaskCompletedVal(d, argv[3], argv[4], argv[5]) THEN "true" ELSE "false", 0, f)
\* lines 257-265
CmdIsCompleted(argv, d, f) ==
    IF Len(argv) + 1 # 6 THEN Done("Usage: is_completed", 1, f)
    ELSE LET is_completed == IsTaskCompletedVal(d, argv[3], argv[4], argv[5])
         IN  Done(IF is_completed THEN "true" ELSE "false",
                  IF is_completed THEN 0 ELSE 1, f)

\* lines 267-274
CmdRegister(argv, d, f, t) ==
    IF Len(argv) + 1 # 7 THEN Done("Usage: register", 1, f)
    ELSE ThenSave(TaskIdOf(NewTask(argv[3], argv[4], argv[5], argv[6], t)), 0, f,
                  RegisterMem(d, argv[3], argv[4], argv[5], argv[6], t))

\* Variant: the complete command exits with 0 and saves nothing.
CmdCompleteNoSave(argv, d, f, t) ==
    IF Len(argv) + 1 # 4 THEN Done("Usage: complete", 1, f)
    ELSE IF ~DictHas(d, argv[3]) THEN Done("", 1, f)
    ELSE Done("", 0, f)
\* Variant: the complete command marks the task SKIPPED.
CmdCompleteSkipped(argv, d, f, t) ==
    IF Len(argv) + 1 # 4 THEN Done("Usage: complete", 1, f)
    ELSE IF ~DictHas(d, argv[3]) THEN Done("", 1, f)
    ELSE ThenSave("", 0, f, UpdateMem(d, argv[3], SKIPPED, None, None, t))
\* lines 276-283
CmdComplete(argv, d, f, t) ==
    IF Len(argv) + 1 # 4 THEN Done("Usage: complete", 1, f)
    ELSE IF ~DictHas(d, argv[3]) THEN Done("", 1, f)
    ELSE ThenSave("", 0, f, UpdateMem(d, argv[3], COMPLETED, None, None, t))

\* lines 285-293
CmdFail(argv, d, f, t) ==
    IF Len(argv) + 1 < 4 THEN Done("Usage: fail", 1, f)
    ELSE LET error_message == IF Len(argv) + 1 > 4 THEN argv[4] ELSE "Unknown error"
         IN  IF ~DictHas(d, argv[3]) THEN Done("", 1, f)
             ELSE ThenSave("", 0, f, UpdateMem(d, argv[3], FAILED, error_message, None, t))

\* lines 299-306
CmdExportLegacy(argv, d, f, t) ==
    IF Len(argv) + 1 # 4 THEN Done("Usage: export_legacy", 1, f)
    ELSE Done("", 0, ExportLegacyFormat(f, PathOf(argv[3]), d, t))

\* The outcome r of a command, with the metadata m of the manager that ran it.
WithMeta(r, m) ==
    [kind |-> r.kind, out |-> r.out, exit |-> r.exit, fs |-> r.fs, tasks |-> r.tasks, meta |-> m]

\* lines 253-310: the command is dispatched on the manager c just constructed.
Dispatch(argv, c, f, t) ==
    LET command == argv[1]
    IN  CASE command = "init" -> ThenSave("Checkpoint initialized", 0, f, c.tasks)
          [] command = "is_completed" -> CmdIsCompleted(argv, c.tasks, f)
          [] command = "register" -> CmdRegister(argv, c.tasks, f, t)
          [] command = "complete" -> CmdComplete(argv, c.tasks, f, t)
          [] command = "fail" -> CmdFail(argv, c.tasks, f, t)
          [] command = "summary" -> Done(GetSummaryVal(c.tasks, c.meta), 0, f)
          [] command = "export_legacy" -> CmdExportLegacy(argv, c.tasks, f, t)
          [] OTHER -> Done("Unknown command", 1, f)

\* lines 248-310: the manager is constructed, then the command dispatched.
MainWith(argv, c, f, t) == WithMeta(Dispatch(argv, c, f, t), c.meta)
MainRun(argv, f, t) == MainWith(argv, Construct(f[PathOf(argv[2])], t), f, t)

\* The register / complete / fail history of the keys after a command that
\* exited: a register prints the id of its key, a complete or fail with that
\* id follows it.
ScenAfter(scen, argv, out, exit) ==
    IF exit # 0 \/ Len(argv) < 3 THEN scen
    ELSE IF argv[1] = "register"
    THEN [k \in DOMAIN scen |->
            IF k = <<argv[3], argv[4], argv[5]>> THEN [phase |-> "registered", id |-> out]
            ELSE IF scen[k].id = out THEN NoScen ELSE scen[k]]
    ELSE IF argv[1] = "complete"
    THEN [k \in DOMAIN scen |->
            IF scen[k].id = argv[3] /\ scen[k].phase \in {"registered", "completed"}
            THEN [scen[k] EXCEPT !.phase = "completed"] ELSE scen[k]]
    ELSE IF argv[1] = "fail"
    THEN [k \in DOMAIN scen |-> IF scen[k].id = argv[3] THEN NoScen ELSE scen[k]]
    ELSE scen

\* The process has run to outcome r: it exits, or it is about to save.
MainOutcome(argv, r) ==
    IF r.kind = "save"
    THEN /\ tasks' = r.tasks
         /\ meta' = r.meta
         /\ pc' = "save_begin"
         /\ ret' = [op |-> "main", argv |-> argv, out |-> r.out, exit |-> r.exit, done |-> FALSE]
         /\ hist' = [hist EXCEPT !.before = Persisted(fs, now),
                                 !.intent = r.tasks, !.killed = FALSE]
         /\ UNCHANGED fs
    ELSE /\ fs' = r.fs
         /\ ret' = [op |-> "main", argv |-> argv, out |-> r.out, exit |-> r.exit, done |-> TRUE]
         /\ hist' = [hist EXCEPT !.scen = ScenAfter(hist.scen, argv, r.out, r.exit)]
         /\ UNCHANGED <<tasks, meta, pc>>

\* The process starts with the command line argv and runs up to its exit or
\* up to the call of save_checkpoint (lines 236-310).
MainStart(argv) ==
    /\ pc = "none"
    /\ IF Len(argv) + 1 < 3
       THEN /\ ret' = [op |-> "main", argv |-> argv, out |-> "Usage", exit |-> 1, done |-> TRUE]
            /\ UNCHANGED <<fs, tasks, meta, pc, hist>>
       ELSE \E r \in {MainRun(argv, fs, now)} : MainOutcome(argv, r)
    /\ UNCHANGED now
    /\ UNCHANGED <<probe, inv>>

\* The save is over: the command prints its result and the process exits.
MainFinish ==
    /\ pc = "save_done"
    /\ ret.op = "main"
    /\ pc' = "none"
    /\ tasks' = <<>>
    /\ meta' = NoMeta
    /\ ret' = [ret EXCEPT !.done = TRUE]
    /\ hist' = [hist EXCEPT !.scen = ScenAfter(hist.scen, ret.argv, ret.out, ret.exit)]
    /\ UNCHANGED <<fs, now>>
    /\ UNCHANGED <<probe, inv>>

\* Command lines an external caller issues.
CliArgvs ==
    { <<>>, <<"init">>, <<"init", P>>, <<"summary", P>>, <<"bogus", P>>,
      <<"is_completed", P, "spk01">>, <<"register", P, "spk01", "ModeA", "clip1.wav">>,
      <<"complete", P>>, <<"fail", P>>,
      <<"complete", P, UnknownId>>, <<"fail", P, UnknownId, "e1">>,
      <<"fail", P, KeyId(K1)>>, <<"fail", P, KeyId(K1), "e1">>, <<"fail", P, KeyId(K1), "">>,
      <<"fail", P, KeyId(K2), "e1">> }
    \cup { <<"is_completed", P, k[1], k[2], k[3]>> : k \in Keys }
    \cup { <<"register", P, a[1][1], a[1][2], a[1][3], a[2]>> : a \in RegisterArgs }
    \cup { <<"complete", P, KeyId(k)>> : k \in Keys }

\* A caller other than the batch driver runs a command.
Command(argv) == MainStart(argv) /\ UNCHANGED drv
CommandExit == MainFinish /\ UNCHANGED drv

NextCli ==
    \/ \E argv \in CliArgvs : Command(argv)
    \/ SaveOpen
    \/ SaveWrite
    \/ SaveClose
    \/ SaveReplace
    \/ CommandExit

\* Commands issued one after the other on one checkpoint path.
SpecCli == Init /\ [][NextCli]_vars

(***************************************************************************)
(* The batch driver of section 2 of the design: per task it runs           *)
(* is_completed, and unless that exits 0, register, the work, and complete *)
(* or fail with the printed id, each command a process of its own; when it *)
(* is killed it starts again from the first task.                          *)
(***************************************************************************)
TaskList == <<K1, K2>>
DriverOutput == "out/a.wav"

DrvFirst == [step |-> "check", i |-> 1, tid |-> None, skipped |-> FALSE, crashes |-> 0]
\* The driver goes on to the next task, or is done.
DrvAdvance(d) ==
    IF d.i = Len(TaskList) THEN [d EXCEPT !.step = "done", !.tid = None]
    ELSE [d EXCEPT !.step = "check", !.i = d.i + 1, !.tid = None]

DrvStart ==
    /\ drv.step = "off"
    /\ drv' = DrvFirst
    /\ UNCHANGED <<fs, tasks, meta, pc, now, ret, hist, probe, inv>>

\* is_completed <path> <speaker> <mode> <file>; exit code 0 skips the task.
DrvCheck ==
    /\ drv.step = "check"
    /\ LET k == TaskList[drv.i]
       IN  MainStart(<<"is_completed", P, k[1], k[2], k[3]>>)
    /\ drv' = IF ret'.exit = 0 THEN [DrvAdvance(drv) EXCEPT !.skipped = TRUE]
              ELSE [drv EXCEPT !.step = "register"]

\* register <path> <speaker> <mode> <file> <output>
DrvRegister ==
    /\ drv.step = "register"
    /\ LET k == TaskList[drv.i]
       IN  MainStart(<<"register", P, k[1], k[2], k[3], DriverOutput>>)
    /\ drv' = [drv EXCEPT !.step = "registering"]

\* The command the driver waits for exits: after register the driver keeps
\* the printed id and starts the work, after complete / fail it goes on.
DrvCommandDone ==
    /\ drv.step \in {"registering", "reporting"}
    /\ MainFinish
    /\ drv' = IF drv.step = "registering"
              THEN [drv EXCEPT !.step = "work", !.tid = ret.out]
              ELSE DrvAdvance(drv)

\* The work itself (recording, processing) succeeds or fails.
DrvWork ==
    /\ drv.step = "work"
    /\ \E outcome \in {"complete", "fail"} : drv' = [drv EXCEPT !.step = outcome]
    /\ UNCHANGED <<fs, tasks, meta, pc, now, ret, hist, probe, inv>>

\* complete <path> <id>   or   fail <path> <id> <message>
DrvReport ==
    /\ drv.step \in {"complete", "fail"}
    /\ IF drv.step = "complete"
       THEN MainStart(<<"complete", P, drv.tid>>)
       ELSE MainStart(<<"fail", P, drv.tid, "e1">>)
    /\ drv' = IF pc' = "none" THEN DrvAdvance(drv) ELSE [drv EXCEPT !.step = "reporting"]

\* Driver and command are killed while a command runs; the driver is started again.
DrvCrashInCommand ==
    /\ drv.step \notin {"off", "done"}
    /\ Crash
    /\ drv' = DrvFirst

\* The driver is killed between two commands and started again.
DrvCrashBetween ==
    /\ drv.step \notin {"off", "done"}
    /\ pc = "none"
    /\ drv' = DrvFirst
    /\ UNCHANGED <<fs, tasks, meta, pc, now, ret, hist, probe, inv>>

NextDriver ==
    \/ DrvStart
    \/ DrvCheck
    \/ DrvRegister
    \/ DrvCommandDone
    \/ DrvWork
    \/ DrvReport
    \/ DrvCrashInCommand
    \/ DrvCrashBetween
    \/ Tick
    \/ SaveOpen
    \/ SaveWrite
    \/ SaveClose
    \/ SaveReplace

\* The batch driver over TaskList, killed and restarted any number of times,
\* while the clock advances.
SpecDriver == Init /\ [][NextDriver]_vars

(***************************************************************************)
(* Task identity over arbitrary strings: a client that registers and looks *)
(* up two composite keys whose parts may be empty or hold the separator.   *)
(***************************************************************************)
IdAlphabet == {"a", "|"}
RECURSIVE StringsUpTo(_)
StringsUpTo(n) ==
    IF n = 0 THEN {""}
    ELSE LET shorter == StringsUpTo(n - 1)
         IN  shorter \cup { x \o c : x \in shorter, c \in IdAlphabet }
IdStrings == StringsUpTo(MaxLen)
\* probe.a ranges over every key; probe.b over two fixed ones.
IdKeys == IdStrings \X IdStrings \X {"", "c"}
IdOthers == { <<"", "|", "">>, <<"a", "", "c">> }
IdOutputs == {"out/a.wav", "out/b.wav"}

InitId ==
    /\ fs = [p \in Paths |-> NoFile]
    /\ tasks = <<>>
    /\ meta = NoMeta
    /\ pc = "none"
    /\ now = 0
    /\ ret = NoRet
    /\ hist = NoHist
    /\ drv = NoDrv
    /\ probe \in [a : IdKeys, b : IdOthers]
    /\ inv = NoInv

IdRegisterA == \E o \in IdOutputs : RegisterTask(probe.a[1], probe.a[2], probe.a[3], o)
IdRegisterB == RegisterTask(probe.b[1], probe.b[2], probe.b[3], "out/a.wav")
\* The caller completes the task whose id register_task just returned.
IdComplete ==
    /\ ret.op = "register_task"
    /\ UpdateTaskStatus(ret.val, COMPLETED, None, None)
IdIsCompleted == IsTaskCompleted(probe.a[1], probe.a[2], probe.a[3])
IdGetTask == GetTaskByParams(probe.a[1], probe.a[2], probe.a[3])

NextId ==
    \/ New
    \/ Exit
    \/ IdRegisterA
    \/ IdRegisterB
    \/ IdComplete
    \/ IdIsCompleted
    \/ IdGetTask

\* The library under a client that works with the keys probe.a and probe.b.
SpecId == InitId /\ [][NextId]_vars

(***************************************************************************)
(* The library under a client whose calls are spread over time: the clock  *)
(* advances between calls, so every save stamps its own time.              *)
(***************************************************************************)
ClockRegisterArgs == { <<K1, "out/a.wav">>, <<K2, "out/a.wav">> }
ClockUpdateArgs ==
    { <<KeyId(K1), COMPLETED, None, None>>, <<KeyId(K1), FAILED, "e1", None>>,
      <<KeyId(K2), SKIPPED, None, "v1">>, <<UnknownId, COMPLETED, None, None>> }

NextClock ==
    \/ New
    \/ Exit
    \/ \E a \in ClockRegisterArgs : RegisterTask(a[1][1], a[1][2], a[1][3], a[2])
    \/ \E a \in ClockUpdateArgs : UpdateTaskStatus(a[1], a[2], a[3], a[4])
    \/ ResetFailedTasks
    \/ Tick

SpecClock == Init /\ [][NextClock]_vars

(***************************************************************************)
(* I/O errors: open, write or replace raises inside save_checkpoint, whose *)
(* except clause (lines 129-131) returns False; open or write raises       *)
(* inside export_legacy_format (lines 229-231).                            *)
(***************************************************************************)
\* manager.save_checkpoint() called by the client itself, up to line 106.
BeginSave ==
    /\ pc = "ready"
    /\ EnterSave("save_checkpoint", TRUE, tasks)
    /\ UNCHANGED <<drv, probe, inv>>

\* An exception is raised at line 122 (open), 123 (write, the with block
\* closes the temporary file as far as it was written) or 126 (replace);
\* lines 129-131 print the error and return False. The metadata was stamped
\* at line 108 before anything could fail.
SaveFails ==
    /\ pc \in {"save_begin", "save_open", "save_write", "save_close"}
    /\ meta' = IF pc = "save_begin" THEN StampMetadata(meta, now) ELSE meta
    /\ pc' = "save_done"
    /\ ret' = IF ret.op = "save_checkpoint" THEN [ret EXCEPT !.val = FALSE] ELSE ret
    /\ UNCHANGED <<fs, tasks, now, hist>>
    /\ UNCHANGED <<drv, probe, inv>>

\* export_legacy_format when an I/O error is raised: by open (k = -1, no
\* file is touched), or by a write after open truncated the file, with
\* nothing (k = 0) or the header and the first k - 1 lines in the file.
ExportLegacyFails(f, legacy_file, d, t, k) ==
    IF k = -1 THEN f
    ELSE IF k = 0 THEN OpenW(f, legacy_file)
    ELSE [f EXCEPT ![legacy_file] =
            [kind |-> "legacy_truncated",
             lines |-> [i \in 1..(k - 1) |-> LegacyLine(d[i].task)]]]

\* manager.export_legacy_format(legacy_file)   (lines 216-231)
ExportLegacy(legacy_file) ==
    /\ pc = "ready"
    /\ fs' = ExportLegacyFormat(fs, legacy_file, tasks, now)
    /\ ret' = [op |-> "export_legacy_format", val |-> TRUE, done |-> TRUE]
    /\ UNCHANGED <<tasks, meta, pc, now, hist>>
    /\ UNCHANGED <<drv, probe, inv>>

\* manager.export_legacy_format(legacy_file) with an I/O error
ExportLegacyError(legacy_file) ==
    /\ pc = "ready"
    /\ \E k \in -1..Len(tasks) : fs' = ExportLegacyFails(fs, legacy_file, tasks, now, k)
    /\ ret' = [op |-> "export_legacy_format", val |-> FALSE, done |-> TRUE]
    /\ UNCHANGED <<tasks, meta, pc, now, hist>>
    /\ UNCHANGED <<drv, probe, inv>>

\* lines 299-306 when export_legacy_format returns False
CmdExportLegacyError(argv, d, f, t, k) ==
    IF Len(argv) + 1 # 4 THEN Done("Usage: export_legacy", 1, f)
    ELSE Done("", 1, ExportLegacyFails(f, PathOf(argv[3]), d, t, k))

\* The export_legacy command hits an I/O error.
CommandExportError(argv) ==
    /\ pc = "none"
    /\ Len(argv) + 1 >= 3
    /\ argv[1] = "export_legacy"
    /\ LET c == Construct(fs[PathOf(argv[2])], now)
       IN  \E k \in -1..Len(c.tasks) :
              MainOutcome(argv, WithMeta(CmdExportLegacyError(argv, c.tasks, fs, now, k), c.meta))
    /\ UNCHANGED <<now, probe, drv, inv>>

\* Legacy paths a caller passes: a path of its own, or the checkpoint path.
LegacyPaths == { LegacyFile, CheckpointFile }
IoRegisterArgs == { <<K1, "out/a.wav">> }
IoUpdateArgs == { <<KeyId(K1), FAILED, "e1", None>>, <<UnknownId, COMPLETED, None, None>> }
IoArgvs ==
    { <<"init", P>>, <<"bogus", P>>, <<"complete", P>>, <<"complete", P, UnknownId>>,
      <<"export_legacy", P, L>>, <<"export_legacy", P>> }
\* export_legacy command lines that hit an I/O error: the legacy path is a
\* path of its own, or the checkpoint path itself.
IoExportArgvs == { <<"export_legacy", P, L>>, <<"export_legacy", P, P>> }

NextIo ==
    \/ New
    \/ Exit
    \/ BeginSave
    \/ \E a \in IoRegisterArgs : BeginRegister(a[1][1], a[1][2], a[1][3], a[2])
    \/ \E a \in IoUpdateArgs : BeginUpdate(a[1], a[2], a[3], a[4])
    \/ BeginReset
    \/ \E p \in LegacyPaths : ExportLegacyError(p)
    \/ \E argv \in IoArgvs : Command(argv)
    \/ \E argv \in IoExportArgvs : CommandExportError(argv)
    \/ SaveOpen
    \/ SaveClose
    \/ SaveReplace
    \/ SaveFails
    \/ SaveReturn
    \/ CommandExit

\* Library clients and commands, one process at a time, on a file system
\* whose operations may fail.
SpecIo == Init /\ [][NextIo]_vars

(***************************************************************************)
(* A manager opened on a checkpoint some earlier program or an editor      *)
(* left behind: well-formed, unparseable, or with task entries that lack   *)
(* a required key or carry a status that is no TaskStatus value.           *)
(***************************************************************************)
\* Text json.load rejects (JSONDecodeError).
Garbage == [kind |-> "garbage"]
\* Task objects a checkpoint file may hold.
EntryDone ==
    [ speaker |-> K1[1], mode_name |-> K1[2], source_filename |-> K1[3],
      output_path |-> "out/a.wav", status |-> "COMPLETED", timestamp |-> 0,
      error_message |-> None, validation_result |-> "v1" ]
EntryFailed ==
    [ speaker |-> K2[1], mode_name |-> K2[2], source_filename |-> K2[3],
      output_path |-> "out/a.wav", status |-> "FAILED", timestamp |-> 0,
      error_message |-> "e1", validation_result |-> None ]
\* No output_path: task_data['output_path'] raises KeyError.
EntryNoOutput ==
    [ speaker |-> K1[1], mode_name |-> K1[2], source_filename |-> K1[3],
      status |-> "PENDING", timestamp |-> 0 ]
\* TaskStatus('DONE') raises ValueError.
EntryBadStatus ==
    [ speaker |-> K2[1], mode_name |-> K2[2], source_filename |-> K2[3],
      output_path |-> "out/a.wav", status |-> "DONE", timestamp |-> 0,
      error_message |-> None, validation_result |-> None ]
Entries == { EntryDone, EntryFailed, EntryNoOutput, EntryBadStatus }

RECURSIVE SeqsUpTo(_, _)
SeqsUpTo(S, n) ==
    IF n = 0 THEN { <<>> }
    ELSE LET shorter == SeqsUpTo(S, n - 1)
         IN  shorter \cup { Append(q, x) : q \in shorter, x \in S }

\* Metadata of a session that was created and last saved at time 0.
OldMetadata == [ created |-> 0, last_updated |-> 0,
                 session_type |-> "recording", version |-> "2.0" ]
FoundFiles ==
    { Garbage } \cup
    { [kind |-> "json", metadata |-> OldMetadata, tasks |-> q] : q \in SeqsUpTo(Entries, MaxEntries) }

\* The checkpoint path holds one of these files; it is time 1.
InitLoad ==
    /\ fs \in { [p \in Paths |-> IF p = CheckpointFile THEN f ELSE NoFile] : f \in FoundFiles }
    /\ tasks = <<>>
    /\ meta = NoMeta
    /\ pc = "none"
    /\ now = 1
    /\ ret = NoRet
    /\ hist = NoHist
    /\ drv = NoDrv
    /\ probe = NoProbe
    /\ inv = NoInv

LoadRegisterArgs == { <<K2, "out/b.wav">> }
LoadUpdateArgs == { <<KeyId(K1), FAILED, "e2", None>> }

NextLoad ==
    \/ New
    \/ Exit
    \/ Save
    \/ \E a \in LoadRegisterArgs : RegisterTask(a[1][1], a[1][2], a[1][3], a[2])
    \/ \E a \in LoadUpdateArgs : UpdateTaskStatus(a[1], a[2], a[3], a[4])
    \/ \E k \in Keys : IsTaskCompleted(k[1], k[2], k[3])

SpecLoad == InitLoad /\ [][NextLoad]_vars

(***************************************************************************)
(* Two invocations of main() on one checkpoint path whose steps may        *)
(* interleave. Both use the temporary path line 121 derives from the       *)
(* checkpoint path. An open file is a handle on the file itself, not on    *)
(* its path: it stays on the file when the file is renamed, and            *)
(* open(path, 'w') of an existing path empties the file that is there.     *)
(***************************************************************************)
Invocations == {1, 2}
\* The command line of each invocation: each registers a task of its own.
TwoArgv(i) ==
    IF i = 1 THEN <<"register", P, K1[1], K1[2], K1[3], "out/a.wav">>
    ELSE <<"register", P, K2[1], K2[2], K2[3], "out/a.wav">>
TwoKey(i) == IF i = 1 THEN K1 ELSE K2

\* Invocation i is between its load and its exit.
Running(v) == v.pc \notin {"idle", "done"}

\* What is written through a handle reaches the file the handle is on: the
\* file now at the temporary path, the file now at the checkpoint path, or
\* a file no path leads to any more.
WriteVia(f, handle, text) ==
    IF handle = "temp" THEN WriteText(f, TempFile(CheckpointFile), text)
    ELSE IF handle = "target" THEN WriteText(f, CheckpointFile, text)
    ELSE f

\* temp_file.replace(checkpoint_file) moves the file at the temporary path:
\* a handle on it is on the checkpoint file afterwards, a handle on the old
\* checkpoint file is on a file without a path.
HandleAfterReplace(handle) ==
    IF handle = "temp" THEN "target"
    ELSE IF handle = "target" THEN "gone"
    ELSE handle

\* TwoStart with a process that starts from an empty registry whatever the
\* checkpoint path holds.
TwoStartNoLoad(i) ==
    /\ inv[i].pc = "idle"
    /\ LET r == MainRun(TwoArgv(i), [fs EXCEPT ![CheckpointFile] = NoFile], now)
           over == \E j \in Invocations : j # i /\ Running(inv[j])
       IN  inv' = [j \in Invocations |->
                     IF j = i
                     THEN [ pc |-> IF r.kind = "save" THEN "save_begin" ELSE "done",
                            argv |-> TwoArgv(i), tasks |-> r.tasks, meta |-> r.meta,
                            out |-> r.out, exit |-> r.exit, handle |-> "none",
                            overlapped |-> over, saved |-> 0 ]
                     ELSE IF Running(inv[j]) THEN [inv[j] EXCEPT !.overlapped = TRUE]
                     ELSE inv[j]]
    /\ UNCHANGED <<fs, tasks, meta, pc, now, ret, hist, drv, probe>>

\* lines 248-274: the process loads the checkpoint and runs its command up
\* to the call of save_checkpoint.
TwoStart(i) ==
    /\ inv[i].pc = "idle"
    /\ LET r == MainRun(TwoArgv(i), fs, now)
           over == \E j \in Invocations : j # i /\ Running(inv[j])
       IN  inv' = [j \in Invocations |->
                     IF j = i
                     THEN [ pc |-> IF r.kind = "save" THEN "save_begin" ELSE "done",
                            argv |-> TwoArgv(i), tasks |-> r.tasks, meta |-> r.meta,
                            out |-> r.out, exit |-> r.exit, handle |-> "none",
                            overlapped |-> over, saved |-> 0 ]
                     ELSE IF Running(inv[j]) THEN [inv[j] EXCEPT !.overlapped = TRUE]
                     ELSE inv[j]]
    /\ UNCHANGED <<fs, tasks, meta, pc, now, ret, hist, drv, probe>>

\* lines 108-122: stamp, prepare, open the temporary path for writing.
TwoSaveOpen(i) ==
    /\ inv[i].pc = "save_begin"
    /\ fs' = OpenW(fs, TempFile(CheckpointFile))
    /\ inv' = [inv EXCEPT ![i].pc = "save_open",
                          ![i].meta = StampMetadata(inv[i].meta, now),
                          ![i].handle = "temp"]
    /\ UNCHANGED <<tasks, meta, pc, now, ret, hist, drv, probe>>

\* line 123 under way: part of the text has gone through the handle.
TwoSaveWrite(i) ==
    /\ inv[i].pc = "save_open"
    /\ \E k \in 0..Len(inv[i].tasks) :
          fs' = WriteVia(fs, inv[i].handle,
                         Truncated(CheckpointData(inv[i].meta, inv[i].tasks), k))
    /\ inv' = [inv EXCEPT ![i].pc = "save_write"]
    /\ UNCHANGED <<tasks, meta, pc, now, ret, hist, drv, probe>>

\* lines 122-123 finished: the whole text has gone through the handle, which
\* is closed.
TwoSaveClose(i) ==
    /\ inv[i].pc \in {"save_open", "save_write"}
    /\ fs' = WriteVia(fs, inv[i].handle, JsonText(CheckpointData(inv[i].meta, inv[i].tasks)))
    /\ inv' = [inv EXCEPT ![i].pc = "save_close", ![i].handle = "none"]
    /\ UNCHANGED <<tasks, meta, pc, now, ret, hist, drv, probe>>

\* line 126: the temporary path is moved over the checkpoint path; when the
\* other invocation has moved it away already, replace raises
\* FileNotFoundError and lines 129-131 return False.
TwoSaveReplace(i) ==
    /\ inv[i].pc = "save_close"
    /\ IF fs[TempFile(CheckpointFile)] # NoFile
       THEN /\ fs' = Replace(fs, TempFile(CheckpointFile), CheckpointFile)
            /\ inv' = [j \in Invocations |->
                         IF j = i
                         THEN [inv[i] EXCEPT !.pc = "save_done",
                                  !.saved = 1 + Cardinality({n \in Invocations : inv[n].saved > 0})]
                         ELSE [inv[j] EXCEPT !.handle = HandleAfterReplace(inv[j].handle)]]
       ELSE /\ inv' = [inv EXCEPT ![i].pc = "save_done"]
            /\ UNCHANGED fs
    /\ UNCHANGED <<tasks, meta, pc, now, ret, hist, drv, probe>>

\* The result of save_checkpoint is not read (line 143): the command prints
\* the id and the process exits with the code it had.
TwoFinish(i) ==
    /\ inv[i].pc = "save_done"
    /\ inv' = [inv EXCEPT ![i].pc = "done"]
    /\ UNCHANGED <<fs, tasks, meta, pc, now, ret, hist, drv, probe>>

NextTwo ==
    \/ \E i \in Invocations : TwoStart(i)
    \/ \E i \in Invocations : TwoSaveOpen(i)
    \/ \E i \in Invocations : TwoSaveWrite(i)
    \/ \E i \in Invocations : TwoSaveClose(i)
    \/ \E i \in Invocations : TwoSaveReplace(i)
    \/ \E i \in Invocations : TwoFinish(i)

\* Two register commands on one checkpoint path, in any interleaving.
SpecTwo == Init /\ [][NextTwo]_vars

(***************************************************************************)
(* The library under a client that asks for the summary, on registries of  *)
(* up to three records in all five statuses.                               *)
(***************************************************************************)
\* A third composite key, of another speaker.
K3 == <<"spk02", "ModeA", "clip1.wav">>
SummaryRegisterArgs == { <<K1, "out/a.wav">>, <<K2, "out/a.wav">>, <<K3, "out/a.wav">> }
SummaryUpdateArgs ==
    { <<KeyId(K1), st, None, None>> : st \in TaskStatus }
    \cup { <<KeyId(k), COMPLETED, None, None>> : k \in {K2, K3} }
    \cup { <<KeyId(K2), FAILED, "e1", None>>, <<UnknownId, COMPLETED, None, None>> }

\* Variant: the summary is followed by a save.
GetSummarySaving ==
    /\ pc = "ready"
    /\ ret' = [op |-> "get_summary", val |-> GetSummaryVal(tasks, meta), done |-> TRUE]
    /\ LET s == SaveCheckpoint(fs, CheckpointFile, meta, tasks, now)
       IN  /\ meta' = s.meta
           /\ fs' = s.fs
    /\ UNCHANGED <<tasks, pc, now, hist>>
    /\ UNCHANGED <<drv, probe, inv>>

\* manager.get_summary()  (lines 179-197)
GetSummary ==
    /\ pc = "ready"
    /\ ret' = [op |-> "get_summary", val |-> GetSummaryVal(tasks, meta), done |-> TRUE]
    /\ UNCHANGED <<fs, tasks, meta, pc, now, hist>>
    /\ UNCHANGED <<drv, probe, inv>>

NextSummary ==
    \/ New
    \/ Exit
    \/ \E a \in SummaryRegisterArgs : RegisterTask(a[1][1], a[1][2], a[1][3], a[2])
    \/ \E a \in SummaryUpdateArgs : UpdateTaskStatus(a[1], a[2], a[3], a[4])
    \/ ResetFailedTasks
    \/ GetSummary

SpecSummary == Init /\ [][NextSummary]_vars

(***************************************************************************)
(* Exports to the legacy text format, from a library client and from the   *)
(* export_legacy command, that succeed or hit an I/O error, while the      *)
(* registry changes and the clock advances between them.                   *)
(***************************************************************************)
ExportRegisterArgs == { <<K1, "out/a.wav">>, <<K2, "out/a.wav">> }
ExportUpdateArgs ==
    { <<KeyId(K1), COMPLETED, None, None>>, <<KeyId(K2), FAILED, "e1", None>> }
\* export_legacy command lines: to a path of its own, to the checkpoint path
\* itself, and with the legacy path missing.
ExportArgvs ==
    { <<"export_legacy", P, L>>, <<"export_legacy", P, P>>, <<"export_legacy", P>> }

NextExport ==
    \/ New
    \/ Exit
    \/ \E a \in ExportRegisterArgs : RegisterTask(a[1][1], a[1][2], a[1][3], a[2])
    \/ \E a \in ExportUpdateArgs : UpdateTaskStatus(a[1], a[2], a[3], a[4])
    \/ \E p \in LegacyPaths : ExportLegacy(p)
    \/ \E argv \in ExportArgvs : Command(argv)
    \/ Tick

\* Exports that meet no I/O error.
SpecExport == Init /\ [][NextExport]_vars

NextExportIo ==
    \/ New
    \/ Exit
    \/ \E a \in ExportRegisterArgs : RegisterTask(a[1][1], a[1][2], a[1][3], a[2])
    \/ \E a \in ExportUpdateArgs : UpdateTaskStatus(a[1], a[2], a[3], a[4])
    \/ \E p \in LegacyPaths : ExportLegacy(p)
    \/ \E p \in LegacyPaths : ExportLegacyError(p)
    \/ \E argv \in ExportArgvs : Command(argv)
    \/ \E argv \in ExportArgvs : CommandExportError(argv)
    \/ Tick

\* Exports that may meet an I/O error at open or at any write.
SpecExportIo == Init /\ [][NextExportIo]_vars

(***************************************************************************)
(* The init command, run any number of times between the processes of a    *)
(* library client that registers and updates tasks, with the clock         *)
(* advancing.                                                              *)
(***************************************************************************)
InitRegisterArgs == { <<K1, "out/a.wav">>, <<K2, "out/a.wav">> }
InitUpdateArgs ==
    { <<KeyId(K1), COMPLETED, None, "v1">>, <<KeyId(K2), FAILED, "e1", None>> }
InitArgvs == { <<"init", P>> }

NextInit ==
    \/ New
    \/ Exit
    \/ \E a \in InitRegisterArgs : RegisterTask(a[1][1], a[1][2], a[1][3], a[2])
    \/ \E a \in InitUpdateArgs : UpdateTaskStatus(a[1], a[2], a[3], a[4])
    \/ \E argv \in InitArgvs : Command(argv)
    \/ SaveOpen
    \/ SaveClose
    \/ SaveReplace
    \/ CommandExit
    \/ Tick

SpecInit == Init /\ [][NextInit]_vars

(***************************************************************************)
(* Command lines with an unknown command or a number of arguments other    *)
(* than the one of the command, among well-formed register commands.       *)
(***************************************************************************)
\* No checkpoint path, a command that does not exist, too few arguments,
\* and too many.
WrongArgvs ==
    { <<>>, <<"init">>, <<"bogus", P>>,
      <<"is_completed", P, "spk01">>, <<"register", P, "spk01", "ModeA", "clip1.wav">>,
      <<"complete", P>>, <<"complete", P, KeyId(K1), "extra">>,
      <<"fail", P>>, <<"export_legacy", P>>, <<"export_legacy", P, L, "extra">>,
      <<"init", P, "extra">>, <<"summary", P, "extra">>,
      <<"fail", P, KeyId(K1), "e1", "extra">> }
UsageArgvs ==
    WrongArgvs \cup { <<"register", P, K1[1], K1[2], K1[3], "out/a.wav">> }

NextUsage ==
    \/ \E argv \in UsageArgvs : Command(argv)
    \/ SaveOpen
    \/ SaveWrite
    \/ SaveClose
    \/ SaveReplace
    \/ CommandExit

SpecUsage == Init /\ [][NextUsage]_vars

(***************************************************************************)
(* Commands run on a checkpoint some earlier program or an editor left     *)
(* behind, well-formed or malformed.                                       *)
(***************************************************************************)
\* Commands that only read the registry; the last one exports to the
\* checkpoint path itself.
ReadOnlyArgvs ==
    { <<"is_completed", P, K1[1], K1[2], K1[3]>>, <<"summary", P>>,
      <<"export_legacy", P, L>>, <<"export_legacy", P, P>> }
\* Commands that save the registry.
MutatingArgvs ==
    { <<"init", P>>, <<"register", P, K2[1], K2[2], K2[3], "out/b.wav">> }

NextLoadCli ==
    \/ \E argv \in ReadOnlyArgvs \cup MutatingArgvs : Command(argv)
    \/ SaveOpen
    \/ SaveClose
    \/ SaveReplace
    \/ CommandExit

SpecLoadCli == InitLoad /\ [][NextLoadCli]_vars

(***************************************************************************)
(* A library client that reads the registry between its mutations, and     *)
(* the is_completed and summary commands, with the clock advancing.        *)
(***************************************************************************)
\* manager.get_failed_tasks()  (lines 199-201)
GetFailedTasks ==
    /\ pc = "ready"
    /\ ret' = [op |-> "get_failed_tasks", val |-> GetFailedTasksVal(tasks), done |-> TRUE]
    /\ UNCHANGED <<fs, tasks, meta, pc, now, hist>>
    /\ UNCHANGED <<drv, probe, inv>>

ReadRegisterArgs == { <<K1, "out/a.wav">>, <<K2, "out/a.wav">> }
ReadUpdateArgs ==
    { <<KeyId(K1), FAILED, "e1", None>>, <<KeyId(K2), FAILED, "e1", "v1">>,
      <<KeyId(K1), COMPLETED, None, None>> }
ReadArgvs ==
    { <<"is_completed", P, K1[1], K1[2], K1[3]>>, <<"summary", P>> }

NextRead ==
    \/ New
    \/ Exit
    \/ \E a \in ReadRegisterArgs : RegisterTask(a[1][1], a[1][2], a[1][3], a[2])
    \/ \E a \in ReadUpdateArgs : UpdateTaskStatus(a[1], a[2], a[3], a[4])
    \/ ResetFailedTasks
    \/ \E k \in Keys : IsTaskCompleted(k[1], k[2], k[3])
    \/ \E k \in Keys : GetTaskByParams(k[1], k[2], k[3])
    \/ GetSummary
    \/ GetFailedTasks
    \/ \E argv \in ReadArgvs : Command(argv)
    \/ Tick

SpecRead == Init /\ [][NextRead]_vars

(***************************************************************************)
(* A library client that registers keys, registers them again, updates,    *)
(* resets and exports, in processes that follow one another, with the      *)
(* clock advancing.                                                        *)
(***************************************************************************)
OrderRegisterArgs == { <<K1, "out/a.wav">>, <<K1, "out/b.wav">>, <<K2, "out/a.wav">> }
OrderUpdateArgs ==
    { <<KeyId(K1), COMPLETED, None, None>>, <<KeyId(K2), FAILED, "e1", None>> }

NextOrder ==
    \/ New
    \/ Exit
    \/ \E a \in OrderRegisterArgs : RegisterTask(a[1][1], a[1][2], a[1][3], a[2])
    \/ \E a \in OrderUpdateArgs : UpdateTaskStatus(a[1], a[2], a[3], a[4])
    \/ ResetFailedTasks
    \/ ExportLegacy(LegacyFile)
    \/ Tick

SpecOrder == Init /\ [][NextOrder]_vars

(***************************************************************************)
(* The seven commands, run one after the other by any caller, from a path  *)
(* with no checkpoint.                                                     *)
(***************************************************************************)
SurfaceArgvs ==
    { <<"init", P>>, <<"summary", P>>,
      <<"is_completed", P, K1[1], K1[2], K1[3]>>,
      <<"complete", P, KeyId(K1)>>,
      <<"fail", P, KeyId(K1), "e1">>, <<"fail", P, KeyId(K2)>>,
      <<"export_legacy", P, P>> }
    \cup { <<"register", P, k[1], k[2], k[3], "out/a.wav">> : k \in Keys }

NextSurface ==
    \/ \E argv \in SurfaceArgvs : Command(argv)
    \/ SaveOpen
    \/ SaveClose
    \/ SaveReplace
    \/ CommandExit

SpecSurface == Init /\ [][NextSurface]_vars

(***************************************************************************)
(* The batch driver when the work always succeeds and it is killed at most *)
(* MaxCrashes times; driver and commands keep running while they can.      *)
(***************************************************************************)
MaxCrashes == 2

\* The work succeeds.
DrvWorkSucceeds ==
    /\ drv.step = "work"
    /\ drv' = [drv EXCEPT !.step = "complete"]
    /\ UNCHANGED <<fs, tasks, meta, pc, now, ret, hist, probe, inv>>

\* Driver and command are killed while a command runs, the driver is
\* started again; this happens MaxCrashes times at most.
DrvCrashInCommandCounted ==
    /\ drv.step \notin {"off", "done"}
    /\ drv.crashes < MaxCrashes
    /\ Crash
    /\ drv' = [DrvFirst EXCEPT !.crashes = drv.crashes + 1]

\* The driver is killed between two commands and started again, MaxCrashes
\* times at most.
DrvCrashBetweenCounted ==
    /\ drv.step \notin {"off", "done"}
    /\ drv.crashes < MaxCrashes
    /\ pc = "none"
    /\ drv' = [DrvFirst EXCEPT !.crashes = drv.crashes + 1]
    /\ UNCHANGED <<fs, tasks, meta, pc, now, ret, hist, probe, inv>>

\* The steps of the driver and of the command it runs.
DriverRuns ==
    \/ DrvStart
    \/ DrvCheck
    \/ DrvRegister
    \/ DrvCommandDone
    \/ DrvWorkSucceeds
    \/ DrvReport
    \/ SaveOpen
    \/ SaveWrite
    \/ SaveClose
    \/ SaveReplace

NextDriverLive ==
    \/ DrvStart
    \/ DrvCheck
    \/ DrvRegister
    \/ DrvCommandDone
    \/ DrvWorkSucceeds
    \/ DrvReport
    \/ DrvCrashInCommandCounted
    \/ DrvCrashBetweenCounted
    \/ SaveOpen
    \/ SaveWrite
    \/ SaveClose
    \/ SaveReplace

\* A process that can take a step takes one: no command and no save step
\* waits for anything but the step before it.
SpecDriverLive == Init /\ [][NextDriverLive]_vars /\ WF_vars(DriverRuns)

(***************************************************************************)
(* Two sessions on two distinct checkpoint paths of one directory: each    *)
(* constructs its manager, registers a task and saves (lines 56-70,        *)
(* 133-144, 104-131), in any interleaving.                                 *)
(***************************************************************************)
\* Checkpoint paths of the directory: two names that differ in the suffix
\* only, one whose suffix is ".tmp", one with a stem of its own.
SessionTxt   == [dir |-> "ckpt", stem |-> "session", suffix |-> ".txt"]
SessionTmp   == [dir |-> "ckpt", stem |-> "session", suffix |-> ".tmp"]
OtherJson    == [dir |-> "ckpt", stem |-> "other", suffix |-> ".json"]
SessionPaths == { CheckpointFile, SessionTxt, SessionTmp, OtherJson }
PathFiles    == SessionPaths \cup { TempFile(p) : p \in SessionPaths }
\* No open file, and an open file that no path leads to any more.
NoPath   == [dir |-> "", stem |-> "", suffix |-> ""]
GonePath == [dir |-> "", stem |-> "gone", suffix |-> ""]

IdleOn(path) ==
    [ pc |-> "idle", path |-> path, tasks |-> <<>>, meta |-> NoMeta, handle |-> NoPath,
      closed |-> NoFile, installed |-> NoFile, old |-> NoFile, ok |-> FALSE ]

InitPath ==
    /\ fs = [p \in PathFiles |-> NoFile]
    /\ tasks = <<>>
    /\ meta = NoMeta
    /\ pc = "none"
    /\ now = 0
    /\ ret = NoRet
    /\ hist = NoHist
    /\ drv = NoDrv
    /\ probe = NoProbe
    /\ \E p1 \in SessionPaths : \E p2 \in SessionPaths \ {p1} :
          inv = [i \in Invocations |-> IdleOn(IF i = 1 THEN p1 ELSE p2)]

\* What is written through a handle reaches the file the handle is on.
WriteAt(f, handle, text) ==
    IF handle \in PathFiles THEN WriteText(f, handle, text) ELSE f

\* source.replace(target): a handle on the file at source is on the file at
\* target afterwards, a handle on the old file at target is on no path.
HandleAfter(handle, source, target) ==
    IF source = target THEN handle
    ELSE IF handle = source THEN target
    ELSE IF handle = target THEN GonePath
    ELSE handle

\* CheckpointManager(path) and register_task up to the call of save_checkpoint.
PathStart(i) ==
    /\ inv[i].pc = "idle"
    /\ LET c == Construct(fs[inv[i].path], now)
           k == TwoKey(i)
       IN  inv' = [inv EXCEPT ![i].pc = "save_begin",
                              ![i].meta = c.meta,
                              ![i].tasks = RegisterMem(c.tasks, k[1], k[2], k[3], "out/a.wav", now),
                              ![i].old = fs[inv[i].path]]
    /\ UNCHANGED <<fs, tasks, meta, pc, now, ret, hist, drv, probe>>

\* lines 108-122: stamp, prepare, open the temporary path for writing.
PathSaveOpen(i) ==
    /\ inv[i].pc = "save_begin"
    /\ fs' = OpenW(fs, TempFile(inv[i].path))
    /\ inv' = [inv EXCEPT ![i].pc = "save_open",
                          ![i].meta = StampMetadata(inv[i].meta, now),
                          ![i].handle = TempFile(inv[i].path)]
    /\ UNCHANGED <<tasks, meta, pc, now, ret, hist, drv, probe>>

\* lines 122-123 finished: the whole text has gone through the handle, which
\* is closed.
PathSaveClose(i) ==
    /\ inv[i].pc = "save_open"
    /\ LET text == JsonText(CheckpointData(inv[i].meta, inv[i].tasks))
       IN  /\ fs' = WriteAt(fs, inv[i].handle, text)
           /\ inv' = [inv EXCEPT ![i].pc = "save_close", ![i].handle = NoPath,
                                 ![i].closed = text]
    /\ UNCHANGED <<tasks, meta, pc, now, ret, hist, drv, probe>>

\* line 126: the file at the temporary path is moved over the checkpoint
\* path; when no file is there, replace raises FileNotFoundError and lines
\* 129-131 return False.
PathSaveReplace(i) ==
    /\ inv[i].pc = "save_close"
    /\ LET source == TempFile(inv[i].path)
           target == inv[i].path
       IN  IF fs[source] # NoFile
           THEN /\ fs' = Replace(fs, source, target)
                /\ inv' = [j \in Invocations |->
                             IF j = i
                             THEN [inv[i] EXCEPT !.pc = "save_done", !.ok = TRUE,
                                                 !.installed = fs[source]]
                             ELSE [inv[j] EXCEPT !.handle = HandleAfter(inv[j].handle, source, target)]]
           ELSE /\ inv' = [inv EXCEPT ![i].pc = "save_done"]
                /\ UNCHANGED fs
    /\ UNCHANGED <<tasks, meta, pc, now, ret, hist, drv, probe>>

\* line 127 and line 144: register_task returns.
PathFinish(i) ==
    /\ inv[i].pc = "save_done"
    /\ inv' = [inv EXCEPT ![i].pc = "done"]
    /\ UNCHANGED <<fs, tasks, meta, pc, now, ret, hist, drv, probe>>

NextPath ==
    \/ \E i \in Invocations : PathStart(i)
    \/ \E i \in Invocations : PathSaveOpen(i)
    \/ \E i \in Invocations : PathSaveClose(i)
    \/ \E i \in Invocations : PathSaveReplace(i)
    \/ \E i \in Invocations : PathFinish(i)

SpecPath == InitPath /\ [][NextPath]_vars

\* ---- PROPERTIES ----
(***************************************************************************)
(* Crash safety of the save (SpecCrash)                                    *)
(***************************************************************************)
(* C1: with one writer that may be killed at any line of save_checkpoint,  *)
(* the checkpoint path is at every moment either absent or holds a whole   *)
(* checkpoint text that a save wrote in full and then moved into place; it *)
(* is never empty or cut short, and a manager loads it without a warning.  *)
C1_TargetNeverPartial ==
    \/ file = NoFile
    \/ /\ file.kind = "json"
       /\ file = hist.installed
       /\ Construct(file, now).ok

\* A save was killed while the temporary file was half written, and the
\* checkpoint of the save before it is still in place.
C1_Witness ==
    /\ pc = "none"
    /\ hist.killed
    /\ tmp.kind = "truncated"
    /\ file.kind = "json"
    /\ Len(file.tasks) > 0

(* C2: when the process is killed during a mutating operation, the         *)
(* registry on the checkpoint path, and the registry the next manager      *)
(* loads from it, is the one persisted before the operation or the one the *)
(* operation meant to persist, never a third one.                          *)
C2_KilledMutationLoadsOldOrNew ==
    hist.killed =>
        /\ Persisted(fs, now) \in {hist.before, hist.intent}
        /\ (pc = "ready" /\ ret.op = "new") => tasks \in {hist.before, hist.intent}

\* The process was killed mid-write of a save that changed the registry, and
\* the next manager has loaded the registry from before the operation.
C2_Witness ==
    /\ hist.killed
    /\ pc = "ready"
    /\ ret.op = "new"
    /\ tmp.kind \in {"empty", "truncated"}
    /\ hist.before # hist.intent
    /\ tasks = hist.before
    /\ Len(tasks) > 0

(***************************************************************************)
(* The registry (Spec)                                                     *)
(***************************************************************************)
\* The registry d holds a record under the id of key k, with status COMPLETED.
HasCompletedRecord(d, k) ==
    \E i \in 1..Len(d) : d[i].id = KeyId(k) /\ d[i].task.status = COMPLETED

(* C7: is_task_completed(S, V, F) is true exactly when the registry holds  *)
(* a record under the id of (S, V, F) whose status is COMPLETED; it is a   *)
(* plain false when there is no record or the record is in another status, *)
(* and it agrees with get_task_by_params finding a COMPLETED record.       *)
C7_IsCompletedIffCompletedRecord ==
    pc = "ready" =>
        /\ \A k \in Keys :
              LET v == IsTaskCompletedVal(tasks, k[1], k[2], k[3])
                  g == GetTaskByParamsVal(tasks, k[1], k[2], k[3])
              IN  /\ v \in BOOLEAN
                  /\ v <=> HasCompletedRecord(tasks, k)
                  /\ v <=> (g # NoTask /\ g.status = COMPLETED)
        /\ ret.op = "is_task_completed" =>
              \E k \in Keys : ret.val = HasCompletedRecord(tasks, k)

\* is_task_completed has just answered false on a registry whose only record
\* is SKIPPED: neither the skipped key nor the unregistered one is done.
C7_Witness ==
    /\ pc = "ready"
    /\ ret.op = "is_task_completed"
    /\ ret.val = FALSE
    /\ Len(tasks) = 1
    /\ tasks[1].task.status = SKIPPED

(* C9: the registry holds at most one record per task id, and every record *)
(* is stored under the id derived from its own speaker, mode_name and      *)
(* source_filename.                                                        *)
C9_OneRecordPerId ==
    /\ \A i, j \in 1..Len(tasks) : tasks[i].id = tasks[j].id => i = j
    /\ \A i \in 1..Len(tasks) :
          tasks[i].id = KeyId(<<tasks[i].task.speaker, tasks[i].task.mode_name,
                                tasks[i].task.source_filename>>)

\* A manager has loaded two records from the checkpoint, one of them changed
\* by update_task_status before it was saved.
C9_Witness ==
    /\ pc = "ready"
    /\ ret.op = "new"
    /\ ret.val = TRUE
    /\ Len(tasks) = 2
    /\ tasks[1].task.status = FAILED

(* C10: register_task for a key whose id is already in the registry        *)
(* replaces the record: afterwards it is PENDING, has the output_path just *)
(* given, no error_message and no validation_result, and the registry has  *)
(* as many records as before.                                              *)
C10_ReRegisterReplaces ==
    [][ \A a \in RegisterArgs :
          (RegisterTask(a[1][1], a[1][2], a[1][3], a[2]) /\ DictHas(tasks, KeyId(a[1])))
          => LET r == DictGet(tasks', KeyId(a[1]))
             IN  /\ r.status = PENDING
                 /\ r.output_path = a[2]
                 /\ r.error_message = None
                 /\ r.validation_result = None
                 /\ Len(tasks') = Len(tasks) ]_vars

\* register_task has just returned the id of K1, whose record stands before
\* the record of K2: K1 was in the registry before this call, and is PENDING
\* with the new output path.
C10_Witness ==
    /\ pc = "ready"
    /\ ret.op = "register_task"
    /\ ret.val = KeyId(K1)
    /\ Len(tasks) = 2
    /\ tasks[1].id = KeyId(K1)
    /\ tasks[1].task.status = PENDING
    /\ tasks[1].task.output_path = "out/b.wav"
    /\ tasks[2].task.status = COMPLETED

(***************************************************************************)
(* The command line (SpecCli)                                              *)
(***************************************************************************)
(* C8: the is_completed command prints false and exits 1 for a key that    *)
(* has no record or a record that is not COMPLETED in the checkpoint, and  *)
(* prints true and exits 0 otherwise; in particular it prints true and     *)
(* exits 0 once a register command for the key was followed by a complete  *)
(* command with the id that register printed.                              *)
C8_IsCompletedCommand ==
    (ret.op = "main" /\ ret.done /\ Len(ret.argv) = 5 /\ ret.argv[1] = "is_completed") =>
        LET k == <<ret.argv[3], ret.argv[4], ret.argv[5]>>
            completed == HasCompletedRecord(Persisted(fs, now), k)
        IN  /\ ret.exit = IF completed THEN 0 ELSE 1
            /\ ret.out = IF completed THEN "true" ELSE "false"
            /\ hist.scen[k].phase = "completed" => (ret.exit = 0 /\ ret.out = "true")

\* is_completed has printed true for K1 after the register and complete
\* commands of K1, run by earlier processes.
C8_Witness ==
    /\ pc = "none"
    /\ ret.op = "main"
    /\ ret.done
    /\ ret.argv = <<"is_completed", P, K1[1], K1[2], K1[3]>>
    /\ hist.scen[K1].phase = "completed"
    /\ ret.exit = 0
    /\ ret.out = "true"

(***************************************************************************)
(* Resuming a batch (SpecDriver)                                           *)
(***************************************************************************)
\* The record the checkpoint holds for key k, NoTask when it holds none.
PersistedRecord(f, t, k) ==
    LET d == Persisted(f, t)
    IN  IF DictHas(d, KeyId(k)) THEN DictGet(d, KeyId(k)) ELSE NoTask

(* C3: under the restarting batch driver a record that is COMPLETED in the *)
(* checkpoint is COMPLETED in every later checkpoint, and the work of a    *)
(* task is never started while the checkpoint has it COMPLETED.            *)
C3_CompletedStaysCompleted ==
    [][ /\ \A k \in Keys :
              HasCompletedRecord(Persisted(fs, now), k)
              => HasCompletedRecord(Persisted(fs', now'), k)
        /\ (drv'.step = "work" /\ drv.step # "work")
              => ~HasCompletedRecord(Persisted(fs, now), TaskList[drv'.i]) ]_vars

\* After a restart the driver skipped the first task, COMPLETED in the
\* checkpoint, and has started the work of the second.
C3_Witness ==
    /\ drv.skipped
    /\ drv.step = "work"
    /\ drv.i = 2
    /\ HasCompletedRecord(Persisted(fs, now), K1)

\* A command other than complete / fail for the id of k is running or none is.
NotReporting(k) ==
    ~(ret.op = "main" /\ Len(ret.argv) >= 3 /\ ret.argv[1] \in {"complete", "fail"}
      /\ ret.argv[3] = KeyId(k))

(* C4: under the restarting batch driver a record that is FAILED with an   *)
(* error_message in the checkpoint keeps that status and message in the    *)
(* checkpoint until a complete or fail command reports the task again.     *)
C4_FailureHistoryKept ==
    [][ \A k \in Keys :
          LET r == PersistedRecord(fs, now, k)
              q == PersistedRecord(fs', now', k)
          IN  (r # NoTask /\ r.status = FAILED /\ r.error_message # None /\ NotReporting(k))
              => (q # NoTask /\ q.status = FAILED /\ q.error_message = r.error_message) ]_vars

(***************************************************************************)
(* Task identity (SpecId)                                                  *)
(***************************************************************************)
KeyOf(task) == <<task.speaker, task.mode_name, task.source_filename>>
\* The id register_task gives key k with output path o.
RegisteredId(k, o) == TaskIdOf(NewTask(k[1], k[2], k[3], o, now))

(* C5: the id register_task gives a triple is the same for every output    *)
(* path, and every record of the registry is stored under the id of its    *)
(* own triple and is the record get_task returns and is_completed consults *)
(* for that triple; register_task returns that id.                         *)
C5_IdDependsOnlyOnKey ==
    /\ \A k \in {probe.a, probe.b} : \A o1, o2 \in IdOutputs :
           RegisteredId(k, o1) = RegisteredId(k, o2)
    /\ \A i \in 1..Len(tasks) :
           LET r == tasks[i].task
           IN  /\ \A o \in IdOutputs : tasks[i].id = RegisteredId(KeyOf(r), o)
               /\ GetTaskByParamsVal(tasks, r.speaker, r.mode_name, r.source_filename) = r
               /\ IsTaskCompletedVal(tasks, r.speaker, r.mode_name, r.source_filename)
                      = (r.status = COMPLETED)
    /\ (pc = "ready" /\ ret.op = "register_task") =>
           /\ DictHas(tasks, ret.val)
           /\ GetTaskByParamsVal(tasks, DictGet(tasks, ret.val).speaker,
                  DictGet(tasks, ret.val).mode_name,
                  DictGet(tasks, ret.val).source_filename) = DictGet(tasks, ret.val)
    /\ (pc = "ready" /\ ret.op = "get_task_by_params" /\ ret.val # NoTask) =>
           ret.val = DictGet(tasks, RegisteredId(KeyOf(ret.val), "out/a.wav"))

\* probe.a was registered with the second output path and completed, and
\* get_task has returned its record.
C5_Witness ==
    /\ ret.op = "get_task_by_params"
    /\ ret.val # NoTask
    /\ KeyOf(ret.val) = probe.a
    /\ ret.val.output_path = "out/b.wav"
    /\ ret.val.status = COMPLETED
    /\ "|" \in {probe.a[1], probe.a[2]}

(* C6: two keys that differ in subject, variant or source_filename get     *)
(* different ids: a record the registry stores under the id of a key is a  *)
(* record of that key, never the record of a different key.                *)
C6_DistinctKeysDistinctIds ==
    \A i \in 1..Len(tasks) : \A k \in {probe.a, probe.b} :
        tasks[i].id = RegisteredId(k, "out/a.wav") => KeyOf(tasks[i].task) = k

(***************************************************************************)
(* Effects of the registry operations (Spec, SpecClock)                    *)
(***************************************************************************)
(* C11: register_task for a key no record of the registry has appends      *)
(* exactly one record, PENDING, with the given speaker, mode_name,         *)
(* source_filename and output_path and no error_message or                 *)
(* validation_result; it returns the id the record is stored under, every  *)
(* record that was there is unchanged, and the checkpoint file holds the   *)
(* resulting registry.                                                     *)
C11_RegisterNewKey ==
    [][ \A a \in RegisterArgs :
          ( /\ RegisterTask(a[1][1], a[1][2], a[1][3], a[2])
            /\ \A i \in 1..Len(tasks) : KeyOf(tasks[i].task) # a[1] )
          => /\ Len(tasks') = Len(tasks) + 1
             /\ \A i \in 1..Len(tasks) : tasks'[i] = tasks[i]
             /\ LET e == tasks'[Len(tasks')]
                IN  /\ KeyOf(e.task) = a[1]
                    /\ e.task.output_path = a[2]
                    /\ e.task.status = PENDING
                    /\ e.task.error_message = None
                    /\ e.task.validation_result = None
                    /\ ret'.op = "register_task"
                    /\ ret'.val = e.id
             /\ Persisted(fs', now') = tasks' ]_vars

\* register_task has just added the record of K2 behind the FAILED record
\* of K1, which is as it was.
C11_Witness ==
    /\ pc = "ready"
    /\ ret.op = "register_task"
    /\ Len(tasks) = 2
    /\ ret.val = tasks[2].id
    /\ KeyOf(tasks[2].task) = K2
    /\ tasks[2].task.status = PENDING
    /\ tasks[1].task.status = FAILED
    /\ tasks[1].task.error_message = "e1"

(* C12: update_task_status with a task id the registry does not hold       *)
(* returns false and changes neither the registry nor the session          *)
(* metadata in memory nor any file: the checkpoint keeps its records and   *)
(* its last_updated.                                                       *)
C12_UnknownIdChangesNothing ==
    [][ \A a \in ClockUpdateArgs :
          (UpdateTaskStatus(a[1], a[2], a[3], a[4]) /\ ~DictHas(tasks, a[1]))
          => /\ ret'.op = "update_task_status"
             /\ ret'.val = FALSE
             /\ tasks' = tasks
             /\ meta' = meta
             /\ fs' = fs ]_vars

\* update_task_status has returned false at a time later than the last
\* save, on a registry that holds a record.
C12_Witness ==
    /\ pc = "ready"
    /\ ret.op = "update_task_status"
    /\ ret.val = FALSE
    /\ Len(tasks) = 1
    /\ file.kind = "json"
    /\ file.metadata.last_updated < now

(***************************************************************************)
(* I/O errors (SpecIo)                                                     *)
(***************************************************************************)
\* The operation that last returned, or the command that last exited,
\* reported success for a mutation it was to persist.
ReportedSuccess ==
    /\ ret.done
    /\ \/ pc = "ready" /\ ret.op = "register_task"
       \/ pc = "ready" /\ ret.op = "update_task_status" /\ ret.val = TRUE
       \/ pc = "ready" /\ ret.op = "reset_failed_tasks" /\ ret.val > 0
       \/ pc = "none" /\ ret.op = "main" /\ ret.exit = 0 /\ ret.argv[1] = "init"

(* C13: whenever register_task, update_task_status, reset_failed_tasks or  *)
(* the init command has reported success (an id, True, a positive count,   *)
(* exit code 0), the checkpoint file is a well-formed checkpoint that      *)
(* holds the registry the operation produced; a save that failed is        *)
(* reported as failure.                                                    *)
C13_SaveFailureReported ==
    ReportedSuccess => (file.kind = "json" /\ Persisted(fs, now) = hist.intent)

\* The operation that last returned, or the command that last exited,
\* reported that it did not succeed.
ReportedFailure ==
    /\ ret.done
    /\ \/ ret.op = "update_task_status" /\ ret.val = FALSE
       \/ ret.op = "save_checkpoint" /\ ret.val = FALSE
       \/ ret.op = "export_legacy_format" /\ ret.val = FALSE
       \/ ret.op = "main" /\ ret.exit # 0

(* C14: whenever an operation has reported that it did not succeed         *)
(* (update_task_status or save_checkpoint or export_legacy_format          *)
(* returned False, a command exited non-zero), the checkpoint file is the  *)
(* one the last successful save installed, or absent when none did.        *)
C14_FailureLeavesCheckpoint ==
    ReportedFailure => file = hist.installed

\* The same, for operations whose legacy path is not the checkpoint path.
FailureLeavesCheckpointUnlessAliased ==
    (ReportedFailure /\ file.kind \notin {"empty", "legacy_truncated"}) => file = hist.installed

(***************************************************************************)
(* Loading (SpecLoad)                                                      *)
(***************************************************************************)
StatusStrings == { "PENDING", "COMPLETED", "FAILED", "SKIPPED", "IN_PROGRESS" }
\* The file is not a well-formed checkpoint: it does not parse, or one of
\* its task entries lacks a required key or has a status outside the set.
Malformed(f) ==
    \/ f.kind = "garbage"
    \/ /\ f.kind = "json"
       /\ \E i \in 1..Len(f.tasks) :
             \/ \E x \in {"speaker", "mode_name", "source_filename", "output_path", "status"} :
                   x \notin DOMAIN f.tasks[i]
             \/ f.tasks[i].status \notin StatusStrings

(* C15: a manager constructed on a malformed checkpoint (unparseable, or   *)
(* with a task entry at any position that lacks a required key or has an   *)
(* unknown status) has an empty registry and fresh session metadata:       *)
(* nothing of the file is in memory.                                       *)
C15_MalformedMeansEmpty ==
    (pc = "ready" /\ ret.op = "new" /\ Malformed(file))
        => (tasks = <<>> /\ meta = FreshMetadata(now))

(***************************************************************************)
(* Persistence of the registry (Spec, SpecClock)                           *)
(***************************************************************************)
\* Record r of the registry and task object e of a checkpoint file carry
\* the same eight field values.
SameFields(r, e) ==
    /\ DOMAIN e = { "speaker", "mode_name", "source_filename", "output_path",
                    "status", "timestamp", "error_message", "validation_result" }
    /\ r.speaker = e.speaker
    /\ r.mode_name = e.mode_name
    /\ r.source_filename = e.source_filename
    /\ r.output_path = e.output_path
    /\ r.status = <<"TaskStatus", e.status>>
    /\ r.timestamp = e.timestamp
    /\ r.error_message = e.error_message
    /\ r.validation_result = e.validation_result

(* C16: save_checkpoint writes one task object per record, in registry     *)
(* order, with the record's eight field values, and a manager constructed  *)
(* on that file holds one record per task object, in file order, with the  *)
(* same eight field values: saving N records of any statuses and loading   *)
(* them gives the same N records in the same order.                        *)
C16_SaveLoadRoundTrip ==
    /\ (pc = "ready" /\ ret.op = "save_checkpoint" /\ ret.val = TRUE) =>
          /\ file.kind = "json"
          /\ Len(file.tasks) = Len(tasks)
          /\ \A i \in 1..Len(tasks) : SameFields(tasks[i].task, file.tasks[i])
          /\ Persisted(fs, now) = tasks
    /\ (pc = "ready" /\ ret.op = "new" /\ ret.val = TRUE) =>
          /\ Len(tasks) = Len(file.tasks)
          /\ \A i \in 1..Len(tasks) : SameFields(tasks[i].task, file.tasks[i])

\* A manager has loaded two records that an earlier one saved: a SKIPPED
\* one with a validation_result and a FAILED one with an error_message.
C16_Witness ==
    /\ pc = "ready"
    /\ ret.op = "new"
    /\ ret.val = TRUE
    /\ Len(tasks) = 2
    /\ tasks[1].task.status = SKIPPED
    /\ tasks[1].task.validation_result = "v1"
    /\ tasks[2].task.status = FAILED
    /\ tasks[2].task.error_message = "e1"

(* C17: when saves do not fail, after register_task, after                 *)
(* update_task_status on a known id and after a reset_failed_tasks that    *)
(* reset a record, a manager constructed on the checkpoint path would hold *)
(* exactly the records of the registry in memory.                          *)
C17_EveryMutationPersisted ==
    ( /\ pc = "ready"
      /\ \/ ret.op = "register_task"
         \/ ret.op = "update_task_status" /\ ret.val = TRUE
         \/ ret.op = "reset_failed_tasks" /\ ret.val > 0 )
    => /\ file.kind = "json"
       /\ Persisted(fs, now) = tasks

\* reset_failed_tasks has reset one of two records at a time later than the
\* record's timestamp.
C17_Witness ==
    /\ pc = "ready"
    /\ ret.op = "reset_failed_tasks"
    /\ ret.val = 1
    /\ Len(tasks) = 2
    /\ tasks[1].task.status = PENDING
    /\ tasks[1].task.timestamp < now

(* C20: reset_failed_tasks turns every FAILED record into a PENDING record *)
(* without error_message, returns the number of records that were FAILED,  *)
(* and leaves every record in another status, the number of records and    *)
(* their order as they were.                                               *)
C20_ResetOnlyFailed ==
    [][ ResetFailedTasks =>
          /\ Len(tasks') = Len(tasks)
          /\ \A i \in 1..Len(tasks) :
                IF tasks[i].task.status = FAILED
                THEN /\ tasks'[i].id = tasks[i].id
                     /\ tasks'[i].task.status = PENDING
                     /\ tasks'[i].task.error_message = None
                     /\ KeyOf(tasks'[i].task) = KeyOf(tasks[i].task)
                     /\ tasks'[i].task.output_path = tasks[i].task.output_path
                ELSE tasks'[i] = tasks[i]
          /\ ret'.op = "reset_failed_tasks"
          /\ ret'.val = Cardinality({i \in 1..Len(tasks) : tasks[i].task.status = FAILED}) ]_vars

\* reset_failed_tasks has returned 1 on a registry whose other record is
\* SKIPPED with its error_message.
C20_Witness ==
    /\ pc = "ready"
    /\ ret.op = "reset_failed_tasks"
    /\ ret.val = 1
    /\ Len(tasks) = 2
    /\ tasks[1].task.status = SKIPPED
    /\ tasks[1].task.error_message = "e1"
    /\ tasks[2].task.status = PENDING


(***************************************************************************)
(* Two invocations on one checkpoint path (SpecTwo)                        *)
(***************************************************************************)
(* C18: while two invocations run their save steps on one checkpoint path  *)
(* in any order, the checkpoint path is absent or holds a whole checkpoint *)
(* text, so that a reader never finds it empty or cut short.               *)
C18_ReaderNeverSeesPartial ==
    fs[CheckpointFile].kind \in {"absent", "json"}

\* Invocation i has left with exit code 0 after its save moved a file into
\* place.
ReportedSaved(i) ==
    /\ inv[i].pc = "done"
    /\ inv[i].exit = 0
    /\ inv[i].saved > 0

(* C19: when the two invocations run one after the other, the checkpoint   *)
(* holds the record of every invocation that has finished; no mutation is  *)
(* lost without an overlap.                                                *)
C19_SequentialLosesNothing ==
    \A i \in Invocations :
        (inv[i].pc = "done" /\ ~inv[i].overlapped)
            => /\ inv[i].exit = 0
               /\ inv[i].saved > 0
               /\ PersistedRecord(fs, now, TwoKey(i)) # NoTask

\* The lost update: both invocations overlapped, both moved their file into
\* place and left with exit code 0, and the checkpoint is a whole text that
\* holds the record of the second saver without that of the first.
C19_Witness ==
    /\ \A i \in Invocations : ReportedSaved(i) /\ inv[i].overlapped
    /\ fs[CheckpointFile].kind = "json"
    /\ \E i \in Invocations :
          /\ inv[i].saved = 1
          /\ PersistedRecord(fs, now, TwoKey(i)) = NoTask
          /\ \E j \in Invocations :
                inv[j].saved = 2 /\ PersistedRecord(fs, now, TwoKey(j)) # NoTask

(***************************************************************************)
(* Fields of a record across transitions (Spec, SpecClock)                 *)
(***************************************************************************)
(* C21: in every state of the library, a record of the registry that has   *)
(* an error_message has status FAILED.                                    *)
C21_ErrorMessageOnlyWhenFailed ==
    \A i \in 1..Len(tasks) :
        tasks[i].task.error_message # None => tasks[i].task.status = FAILED

\* After update_task_status with arguments a on a known id: the record of
\* that id has the passed error_message and validation_result, or the ones
\* it had where None is passed, and every other record is as it was.
PayloadsAfterUpdate(a) ==
    /\ Len(tasks') = Len(tasks)
    /\ \A i \in 1..Len(tasks) :
          IF tasks[i].id = a[1]
          THEN /\ tasks'[i].id = a[1]
               /\ tasks'[i].task.error_message =
                     (IF a[3] = None THEN tasks[i].task.error_message ELSE a[3])
               /\ tasks'[i].task.validation_result =
                     (IF a[4] = None THEN tasks[i].task.validation_result ELSE a[4])
          ELSE tasks'[i] = tasks[i]

(* C22: update_task_status on a known id leaves the record's error_message *)
(* (validation_result) as it was when none is passed and replaces it by    *)
(* the passed value otherwise, and modifies no other record.               *)
C22_PayloadsKeptOrReplaced ==
    [][ \A a \in UpdateArgs :
          (UpdateTaskStatus(a[1], a[2], a[3], a[4]) /\ DictHas(tasks, a[1]))
          => PayloadsAfterUpdate(a) ]_vars

\* The same for passed values that are not empty: it holds for them.
NonEmptyPayloadsKeptOrReplaced ==
    [][ \A a \in UpdateArgs :
          (/\ UpdateTaskStatus(a[1], a[2], a[3], a[4])
           /\ DictHas(tasks, a[1])
           /\ a[3] # ""
           /\ a[4] # EmptyDict)
          => PayloadsAfterUpdate(a) ]_vars

\* register_task and update_task_status on a known id leave the record
\* they act on with the time of the call as its timestamp.
RegisterAndUpdateStampTime ==
    [][ /\ \A a \in ClockRegisterArgs :
              RegisterTask(a[1][1], a[1][2], a[1][3], a[2])
              => /\ DictHas(tasks', KeyId(a[1]))
                 /\ DictGet(tasks', KeyId(a[1])).timestamp = now
        /\ \A a \in ClockUpdateArgs :
              (UpdateTaskStatus(a[1], a[2], a[3], a[4]) /\ DictHas(tasks, a[1]))
              => DictGet(tasks', a[1]).timestamp = now ]_vars

(* C23: every operation that sets or changes the status of a record sets   *)
(* the timestamp of that record to the time of the operation; here for     *)
(* reset_failed_tasks and the records it turns from FAILED to PENDING.     *)
C23_TimestampIsLastTransition ==
    [][ ResetFailedTasks
        => \A i \in 1..Len(tasks) :
              tasks[i].task.status = FAILED
              => /\ tasks'[i].task.status = PENDING
                 /\ tasks'[i].task.timestamp = now ]_vars

(***************************************************************************)
(* The summary (SpecSummary)                                               *)
(***************************************************************************)
\* The number of records of the registry that have status st.
RecordsWith(st) == Len(SelectSeq(tasks, LAMBDA r : r.task.status = st))
\* get_summary has just returned its result on the registry in memory.
SummaryReturned == pc = "ready" /\ ret.op = "get_summary"

(* C24: the result of get_summary has total_tasks equal to the number of   *)
(* records and, for each of the five statuses, a count equal to the number *)
(* of records in that status; the five counts add up to total_tasks.       *)
C24_SummaryCounts ==
    SummaryReturned
    => /\ ret.val.total_tasks = Len(tasks)
       /\ DOMAIN ret.val.status_counts = {StatusValue(st) : st \in TaskStatus}
       /\ \A st \in TaskStatus : ret.val.status_counts[StatusValue(st)] = RecordsWith(st)
       /\ ret.val.status_counts[StatusValue(PENDING)]
            + ret.val.status_counts[StatusValue(COMPLETED)]
            + ret.val.status_counts[StatusValue(FAILED)]
            + ret.val.status_counts[StatusValue(SKIPPED)]
            + ret.val.status_counts[StatusValue(IN_PROGRESS)] = ret.val.total_tasks

\* A summary of three records in three different statuses, one of them
\* IN_PROGRESS.
C24_Witness ==
    /\ SummaryReturned
    /\ ret.val.total_tasks = 3
    /\ ret.val.status_counts[StatusValue(IN_PROGRESS)] = 1
    /\ ret.val.status_counts[StatusValue(FAILED)] = 1
    /\ ret.val.status_counts[StatusValue(COMPLETED)] = 1

(* C25: the completion rate of get_summary is 100 * COMPLETED / total as   *)
(* an exact fraction, is 0 for the empty registry, and lies between 0 and  *)
(* 100.                                                                    *)
C25_CompletionRate ==
    SummaryReturned
    => LET rate == ret.val.completion_rate
       IN  /\ rate.den > 0
           /\ rate.num * Len(tasks) = 100 * RecordsWith(COMPLETED) * rate.den
           /\ Len(tasks) = 0 => rate.num = 0
           /\ 0 <= rate.num
           /\ rate.num <= 100 * rate.den

\* A summary of three records of which two are COMPLETED and one is
\* SKIPPED: the rate is 200 / 3.
C25_Witness ==
    /\ SummaryReturned
    /\ Len(tasks) = 3
    /\ RecordsWith(COMPLETED) = 2
    /\ RecordsWith(SKIPPED) = 1
    /\ ret.val.completion_rate.num * 3 = 200 * ret.val.completion_rate.den

(***************************************************************************)
(* The legacy export (SpecExport, SpecExportIo)                            *)
(***************************************************************************)
\* The text a finished export of registry d at time t leaves: the three
\* comment lines, then for each record its six columns joined by '|'.
LegacyTextOf(d, t) ==
    [ kind |-> "legacy",
      header |-> << "# Recording Progress Checkpoint File",
                    "# Generated on " \o ToString(t),
                    "# Format: speaker|mode_name|source_filename|output_path|status|timestamp" >>,
      lines |-> [i \in 1..Len(d) |->
                    d[i].task.speaker \o "|" \o d[i].task.mode_name \o "|"
                      \o d[i].task.source_filename \o "|" \o d[i].task.output_path \o "|"
                      \o d[i].task.status[2] \o "|" \o ToString(d[i].task.timestamp)] ]

(* C26: an export that meets no error leaves at the legacy path the header *)
(* lines and exactly one line per record of the registry, in the columns   *)
(* speaker, mode_name, source_filename, output_path, status, timestamp     *)
(* with the record's current status, whatever the path held before; the    *)
(* export_legacy command does so for the registry it loaded.               *)
C26_ExportWritesEveryRecord ==
    [][ /\ \A p \in LegacyPaths :
              ExportLegacy(p)
              => /\ fs'[p] = LegacyTextOf(tasks, now)
                 /\ Len(fs'[p].lines) = Len(tasks)
        /\ \A argv \in { <<"export_legacy", P, L>>, <<"export_legacy", P, P>> } :
              Command(argv)
              => /\ ret'.exit = 0
                 /\ fs'[PathOf(argv[3])] = LegacyTextOf(Persisted(fs, now), now) ]_vars

\* An export at time 1 has returned true and left two lines: a record
\* registered at time 0 that is FAILED, and one COMPLETED at time 1.
C26_Witness ==
    /\ pc = "ready"
    /\ ret.op = "export_legacy_format"
    /\ ret.val = TRUE
    /\ fs[LegacyFile].kind = "legacy"
    /\ fs[LegacyFile].header[2] = "# Generated on 1"
    /\ Len(fs[LegacyFile].lines) = 2
    /\ \E i, j \in 1..2 :
          /\ fs[LegacyFile].lines[i] = "spk01|ModeA|clip1.wav|out/a.wav|COMPLETED|1"
          /\ fs[LegacyFile].lines[j] = "spk01||clip2.wav|out/a.wav|FAILED|0"

\* export_legacy_format with legacy path p has returned, with or without an
\* I/O error, and left the registry in memory and the checkpoint file as
\* they were; after an error it has returned false.
ExportFrame(p) ==
    /\ ExportLegacy(p) \/ ExportLegacyError(p)
       => /\ tasks' = tasks
          /\ fs'[CheckpointFile] = fs[CheckpointFile]
    /\ ExportLegacyError(p) => ret'.val = FALSE

\* The export_legacy command with command line argv has exited and left
\* the checkpoint file as it was; after an I/O error it has exited with 1.
ExportCommandFrame(argv) ==
    /\ Command(argv) \/ CommandExportError(argv)
       => fs'[CheckpointFile] = fs[CheckpointFile]
    /\ CommandExportError(argv) => ret'.exit = 1

(* C27: an export, whether it succeeds or meets an I/O error, leaves the   *)
(* registry in memory and the checkpoint file unchanged; after an error    *)
(* export_legacy_format returns false and the export_legacy command exits  *)
(* with 1.                                                                 *)
C27_ExportChangesNothingElse ==
    [][ /\ \A p \in LegacyPaths : ExportFrame(p)
        /\ \A argv \in ExportArgvs : ExportCommandFrame(argv) ]_vars

\* The same for legacy paths other than the checkpoint path: it holds for
\* them.
ExportChangesNothingElseUnlessAliased ==
    [][ /\ \A p \in LegacyPaths \ {CheckpointFile} : ExportFrame(p)
        /\ \A argv \in ExportArgvs \ { <<"export_legacy", P, P>> } :
              ExportCommandFrame(argv) ]_vars

(***************************************************************************)
(* The complete and fail commands (SpecCli)                                *)
(***************************************************************************)
\* complete and fail command lines that carry a task id.
StatusArgvs ==
    { argv \in CliArgvs :
         \/ Len(argv) = 3 /\ argv[1] \in {"complete", "fail"}
         \/ Len(argv) = 4 /\ argv[1] = "fail" }
\* The status the command sets, and the message a fail command carries.
StatusOfCommand(argv) == IF argv[1] = "complete" THEN COMPLETED ELSE FAILED
MessageOfCommand(argv) == IF Len(argv) = 4 THEN argv[4] ELSE "Unknown error"

\* The command argv runs from its start to its save or its exit, and from
\* the end of its save to its exit: with an id the checkpoint holds it is
\* on its way to exit code 0 with the record in the new status (and, for
\* fail, with the message), and it exits with that record persisted; with
\* any other id it exits with 1 and the file system as it was.
StatusCommandSteps(argv) ==
    /\ Command(argv)
       => IF DictHas(Persisted(fs, now), argv[3])
          THEN /\ ret'.exit = 0
               /\ ~ret'.done
               /\ DictHas(tasks', argv[3])
               /\ DictGet(tasks', argv[3]).status = StatusOfCommand(argv)
               /\ argv[1] = "fail" =>
                     DictGet(tasks', argv[3]).error_message = MessageOfCommand(argv)
          ELSE /\ ret'.exit = 1
               /\ ret'.done
               /\ fs' = fs
    /\ (CommandExit /\ ret.argv = argv)
       => /\ ret'.exit = 0
          /\ ret'.done
          /\ DictHas(Persisted(fs', now), argv[3])
          /\ DictGet(Persisted(fs', now), argv[3]).status = StatusOfCommand(argv)
          /\ argv[1] = "fail" =>
                DictGet(Persisted(fs', now), argv[3]).error_message = MessageOfCommand(argv)

(* C28: the complete and fail commands exit 0 with the new status          *)
(* persisted when the checkpoint holds the task id, and exit 1 with the    *)
(* checkpoint unchanged when it does not; after a fail command that exited *)
(* 0 the record is FAILED with the message of the command line, or         *)
(* "Unknown error" when the command line has none.                         *)
C28_CompleteAndFailCommands ==
    [][ \A argv \in StatusArgvs : StatusCommandSteps(argv) ]_vars

\* The same for command lines whose message is not the empty string: it
\* holds for them.
CompleteAndFailWithNonEmptyMessage ==
    [][ \A argv \in { a \in StatusArgvs : Len(a) = 4 => a[4] # "" } :
           StatusCommandSteps(argv) ]_vars

(***************************************************************************)
(* Session metadata across managers (SpecClock)                            *)
(***************************************************************************)
(* C29: from one step to the next, over managers that come and go on one   *)
(* checkpoint path, the created time in the checkpoint file never changes  *)
(* once a save has written it; a save leaves last_updated equal to the     *)
(* time of the save; last_updated never decreases and is never earlier     *)
(* than created.                                                           *)
C29_CreatedOnceUpdatedOnSave ==
    [][ /\ file.kind = "json"
           => /\ file'.kind = "json"
              /\ file'.metadata.created = file.metadata.created
              /\ file'.metadata.last_updated >= file.metadata.last_updated
        /\ file'.kind = "json"
           => /\ file'.metadata.created # NoTime
              /\ file'.metadata.created <= file'.metadata.last_updated
              /\ file'.metadata.last_updated <= now
        /\ file' # file => file'.metadata.last_updated = now
        /\ \A a \in ClockRegisterArgs :
              RegisterTask(a[1][1], a[1][2], a[1][3], a[2])
              => file'.metadata.last_updated = now ]_vars

\* A manager constructed at time 1 on a checkpoint created at time 0 has
\* registered a task: the file has created 0 and last_updated 1, and holds
\* a record of time 0 and one of time 1.
C29_Witness ==
    /\ pc = "ready"
    /\ ret.op = "register_task"
    /\ now = 1
    /\ meta.created = 0
    /\ file.kind = "json"
    /\ file.metadata.created = 0
    /\ file.metadata.last_updated = 1
    /\ Len(file.tasks) = 2
    /\ file.tasks[1].timestamp = 0
    /\ file.tasks[2].timestamp = 1

(***************************************************************************)
(* The init command (SpecInit)                                             *)
(***************************************************************************)
\* The init command is running its save.
InitSaving == ret.op = "main" /\ ~ret.done /\ ret.argv = <<"init", P>>

(* C30: the save of an init command puts a checkpoint with zero records on *)
(* a path that held none, and on a path that held a checkpoint one with    *)
(* the same task entries and the same created time, so that only           *)
(* last_updated may differ; the command then exits with 0.                 *)
C30_InitKeepsRecords ==
    [][ /\ (SaveReplace /\ InitSaving)
           => /\ file'.kind = "json"
              /\ file'.tasks = (IF file.kind = "json" THEN file.tasks ELSE <<>>)
              /\ file.kind = "json"
                 => /\ file'.metadata.created = file.metadata.created
                    /\ [file'.metadata EXCEPT !.last_updated = NoTime]
                         = [file.metadata EXCEPT !.last_updated = NoTime]
        /\ (CommandExit /\ InitSaving)
           => /\ ret'.exit = 0
              /\ ret'.out = "Checkpoint initialized"
              /\ fs' = fs ]_vars

\* An init command run at time 1 has exited on a checkpoint of time 0 that
\* holds a COMPLETED record with a validation result and a FAILED one with
\* an error message: both are there as they were, last_updated is 1.
C30_Witness ==
    /\ pc = "none"
    /\ ret.op = "main"
    /\ ret.done
    /\ ret.argv = <<"init", P>>
    /\ file.kind = "json"
    /\ file.metadata.created = 0
    /\ file.metadata.last_updated = 1
    /\ Len(file.tasks) = 2
    /\ \A i \in 1..2 : file.tasks[i].timestamp = 0
    /\ \E i \in 1..2 : file.tasks[i].status = "COMPLETED" /\ file.tasks[i].validation_result = "v1"
    /\ \E i \in 1..2 : file.tasks[i].status = "FAILED" /\ file.tasks[i].error_message = "e1"

(***************************************************************************)
(* Malformed command lines (SpecUsage)                                     *)
(***************************************************************************)
\* What main prints for a command line it rejects: the usage text, the
\* usage line of a command, or the unknown-command message.
UsageTexts ==
    { "Usage", "Usage: is_completed", "Usage: register", "Usage: complete", "Usage: fail",
      "Usage: export_legacy", "Unknown command" }

\* The command line argv is rejected: the process exits at once with a
\* non-zero code and one of the usage texts, and no file has changed.
Rejected(argv) ==
    Command(argv)
    => /\ ret'.done
       /\ ret'.exit # 0
       /\ ret'.out \in UsageTexts
       /\ fs' = fs

(* C31: a command line with an unknown command, or with a known command    *)
(* and a number of arguments that is not the command's, makes the process  *)
(* exit non-zero with usage text and leaves the checkpoint file as it was, *)
(* absent when it was absent.                                              *)
C31_WrongCommandLineRejected ==
    [][ \A argv \in WrongArgvs : Rejected(argv) ]_vars

\* The same for command lines with an unknown command or too few
\* arguments, and for complete and export_legacy with too many: it holds
\* for them.
TooFewArgumentsRejected ==
    [][ \A argv \in WrongArgvs \ { <<"init", P, "extra">>, <<"summary", P, "extra">>,
                                   <<"fail", P, KeyId(K1), "e1", "extra">> } :
           Rejected(argv) ]_vars

(***************************************************************************)
(* Status transitions (Spec)                                               *)
(***************************************************************************)
(* C32: update_task_status on a known id returns true and leaves the       *)
(* record, in memory and in the checkpoint, with the requested status,     *)
(* whatever status it had and whatever status is requested.                *)
C32_NoTransitionRejected ==
    [][ \A a \in UpdateArgs :
          (UpdateTaskStatus(a[1], a[2], a[3], a[4]) /\ DictHas(tasks, a[1]))
          => /\ ret'.val = TRUE
             /\ DictHas(tasks', a[1])
             /\ DictGet(tasks', a[1]).status = a[2]
             /\ DictHas(Persisted(fs', now), a[1])
             /\ DictGet(Persisted(fs', now), a[1]).status = a[2] ]_vars

\* A record that was COMPLETED, where it got the message "e2", has been set
\* to PENDING by update_task_status.
C32_Witness ==
    /\ pc = "ready"
    /\ ret.op = "update_task_status"
    /\ ret.val = TRUE
    /\ DictHas(tasks, KeyId(K1))
    /\ DictGet(tasks, KeyId(K1)).status = PENDING
    /\ DictGet(tasks, KeyId(K1)).error_message = "e2"
    /\ DictGet(Persisted(fs, now), KeyId(K1)).status = PENDING

(***************************************************************************)
(* Commands on a malformed checkpoint (SpecLoadCli)                        *)
(***************************************************************************)
\* The ids of the task entries of a checkpoint text.
EntryIds(f) ==
    { Md5Hex12(f.tasks[i].speaker \o "|" \o f.tasks[i].mode_name \o "|"
                 \o f.tasks[i].source_filename) : i \in 1..Len(f.tasks) }

\* The read-only command argv, run on a malformed checkpoint, leaves the
\* file at the checkpoint path as it is.
ReadOnlyKeepsMalformed(argv) ==
    (Command(argv) /\ Malformed(file)) => file' = file

\* The save of a mutating command that loaded a malformed checkpoint puts a
\* well-formed checkpoint in its place that holds the records the manager
\* loaded and the one it registered, and no other entry of the old file.
MutatingReplacesMalformed ==
    (/\ SaveReplace
     /\ ret.op = "main"
     /\ ret.argv \in MutatingArgvs
     /\ Malformed(file))
    => /\ file'.kind = "json"
       /\ ~Malformed(file')
       /\ EntryIds(file') = DictKeys(Construct(file, now).tasks)
                              \cup (IF ret.argv[1] = "register" THEN {KeyId(K2)} ELSE {})

(* C33: on a malformed checkpoint the commands that only read             *)
(* (is_completed, summary, export_legacy) leave the file untouched, and    *)
(* the first init or register command replaces it by a checkpoint without  *)
(* the records that were not loaded.                                       *)
C33_MalformedKeptUntilMutation ==
    [][ /\ \A argv \in ReadOnlyArgvs : ReadOnlyKeepsMalformed(argv)
        /\ MutatingReplacesMalformed ]_vars

\* The same without the export whose legacy path is the checkpoint path:
\* it holds.
MalformedKeptUntilMutationUnlessAliased ==
    [][ /\ \A argv \in ReadOnlyArgvs \ { <<"export_legacy", P, P>> } :
              ReadOnlyKeepsMalformed(argv)
        /\ MutatingReplacesMalformed ]_vars

(***************************************************************************)
(* Reading the registry (SpecRead)                                         *)
(***************************************************************************)
(* C34: is_task_completed, get_task_by_params, get_summary and             *)
(* get_failed_tasks leave the registry and the session metadata in memory  *)
(* and every file as they are; the is_completed and summary commands exit  *)
(* without touching a file, so that a path with no checkpoint still has    *)
(* none.                                                                   *)
C34_ReadsChangeNothing ==
    [][ /\ \A k \in Keys :
              (IsTaskCompleted(k[1], k[2], k[3]) \/ GetTaskByParams(k[1], k[2], k[3]))
              => (tasks' = tasks /\ meta' = meta /\ fs' = fs)
        /\ (GetSummary \/ GetFailedTasks)
              => (tasks' = tasks /\ meta' = meta /\ fs' = fs)
        /\ \A argv \in ReadArgvs :
              Command(argv)
              => /\ ret'.done
                 /\ fs' = fs
                 /\ file = NoFile => file' = NoFile ]_vars

\* The summary command has exited with 0 on a path with no checkpoint,
\* reporting zero tasks, and there is still no file.
C34_Witness ==
    /\ pc = "none"
    /\ ret.op = "main"
    /\ ret.done
    /\ ret.argv = <<"summary", P>>
    /\ ret.exit = 0
    /\ ret.out.total_tasks = 0
    /\ \A p \in Paths : fs[p] = NoFile

\* The records of the registry with status FAILED, in registry order.
FailedRecords == [i \in 1..Len(SelectSeq(tasks, LAMBDA r : r.task.status = FAILED)) |->
                    SelectSeq(tasks, LAMBDA r : r.task.status = FAILED)[i].task]

(* C35: get_failed_tasks returns exactly the records with status FAILED;   *)
(* once reset_failed_tasks has returned there is none; and                 *)
(* reset_failed_tasks called right after reset_failed_tasks returns 0 and  *)
(* writes no file, so that last_updated in the checkpoint stays.           *)
C35_FailedTasksAndSecondReset ==
    [][ /\ GetFailedTasks => ret'.val = FailedRecords
        /\ ResetFailedTasks
           => /\ GetFailedTasksVal(tasks') = <<>>
              /\ \A i \in 1..Len(tasks') : tasks'[i].task.status # FAILED
        /\ (GetFailedTasks /\ ret.op = "reset_failed_tasks") => ret'.val = <<>>
        /\ (ResetFailedTasks /\ ret.op = "reset_failed_tasks")
           => /\ ret'.val = 0
              /\ tasks' = tasks
              /\ fs' = fs ]_vars

\* reset_failed_tasks has returned 0 at time 1 on a registry whose records
\* are PENDING, one of them with the validation result it got when it was
\* set to FAILED, so that it was reset at time 0: the checkpoint still has
\* last_updated 0.
C35_Witness ==
    /\ pc = "ready"
    /\ ret.op = "reset_failed_tasks"
    /\ ret.val = 0
    /\ now = 1
    /\ Len(tasks) = 2
    /\ \A i \in 1..2 : tasks[i].task.status = PENDING /\ tasks[i].task.timestamp = 0
    /\ \E i \in 1..2 : tasks[i].task.validation_result = "v1"
    /\ file.kind = "json"
    /\ file.metadata.last_updated = 0

(***************************************************************************)
(* Order of the records (SpecOrder)                                        *)
(***************************************************************************)
\* The ids of the registry d in iteration order.
IdsInOrder(d) == [i \in 1..Len(d) |-> d[i].id]
\* The ids of the task entries of checkpoint text f in file order.
EntryIdsInOrder(f) ==
    [i \in 1..Len(f.tasks) |->
        Md5Hex12(f.tasks[i].speaker \o "|" \o f.tasks[i].mode_name \o "|"
                   \o f.tasks[i].source_filename)]
\* The first three columns of a legacy line are those of record r.
LineOf(line, r) ==
    LET key == r.task.speaker \o "|" \o r.task.mode_name \o "|" \o r.task.source_filename \o "|"
    IN  /\ Len(line) >= Len(key)
        /\ SubSeq(line, 1, Len(key)) = key

(* C36: the registry is iterated in the order in which its keys were first *)
(* registered: registering a new key puts it last, registering a key       *)
(* again, updating a status and resetting leave the order as it is; a save *)
(* writes the entries in that order, a later manager that loads the file   *)
(* has that order, and an export writes its lines in that order.           *)
C36_OrderOfFirstRegistration ==
    [][ /\ \A a \in OrderRegisterArgs :
              RegisterTask(a[1][1], a[1][2], a[1][3], a[2])
              => /\ IdsInOrder(tasks') =
                       (IF DictHas(tasks, KeyId(a[1])) THEN IdsInOrder(tasks)
                        ELSE Append(IdsInOrder(tasks), KeyId(a[1])))
                 /\ EntryIdsInOrder(file') = IdsInOrder(tasks')
        /\ \A a \in OrderUpdateArgs :
              (UpdateTaskStatus(a[1], a[2], a[3], a[4]) /\ DictHas(tasks, a[1]))
              => /\ IdsInOrder(tasks') = IdsInOrder(tasks)
                 /\ EntryIdsInOrder(file') = IdsInOrder(tasks')
        /\ ResetFailedTasks
              => /\ IdsInOrder(tasks') = IdsInOrder(tasks)
                 /\ ResetCount(tasks) > 0 => EntryIdsInOrder(file') = IdsInOrder(tasks')
        /\ (New /\ file.kind = "json") => IdsInOrder(tasks') = EntryIdsInOrder(file)
        /\ ExportLegacy(LegacyFile)
              => /\ Len(fs'[LegacyFile].lines) = Len(tasks)
                 /\ \A i \in 1..Len(tasks) : LineOf(fs'[LegacyFile].lines[i], tasks[i]) ]_vars

\* A manager constructed at time 1 has loaded K1 before K2 from a
\* checkpoint in which K1, registered first, was registered again at time 1
\* after K2 had been registered at time 0.
C36_Witness ==
    /\ pc = "ready"
    /\ ret.op = "new"
    /\ now = 1
    /\ IdsInOrder(tasks) = <<KeyId(K1), KeyId(K2)>>
    /\ EntryIdsInOrder(file) = <<KeyId(K1), KeyId(K2)>>
    /\ tasks[1].task.status = PENDING
    /\ tasks[1].task.timestamp = 1
    /\ tasks[2].task.status = PENDING
    /\ tasks[2].task.timestamp = 0

(***************************************************************************)
(* Statuses the commands can reach (SpecSurface)                           *)
(***************************************************************************)
\* The status of the record the checkpoint f holds for key k, None when it
\* holds no such record.
PersistedStatus(f, k) ==
    IF PersistedRecord(f, now, k) = NoTask THEN None
    ELSE StatusValue(PersistedRecord(f, now, k).status)

\* This step is the replace of the save of a register command for key k.
RegisterInstalls(k) ==
    /\ SaveReplace
    /\ ret.op = "main"
    /\ Len(ret.argv) = 6
    /\ ret.argv[1] = "register"
    /\ <<ret.argv[3], ret.argv[4], ret.argv[5]>> = k

(* C37: with the commands alone, from a path with no checkpoint, every     *)
(* entry of the checkpoint file has status PENDING, COMPLETED or FAILED,   *)
(* and a record that is FAILED or COMPLETED in the checkpoint becomes      *)
(* PENDING there only by the save of a register command for its key.       *)
C37_CommandsReachThreeStatuses ==
    [][ /\ file'.kind = "json"
           => \A i \in 1..Len(file'.tasks) :
                 file'.tasks[i].status \in
                    {StatusValue(PENDING), StatusValue(COMPLETED), StatusValue(FAILED)}
        /\ \A k \in Keys :
              (/\ PersistedStatus(fs, k) \in {StatusValue(FAILED), StatusValue(COMPLETED)}
               /\ PersistedStatus(fs', k) = StatusValue(PENDING))
              => RegisterInstalls(k) ]_vars

\* A register command for K1 has exited: the record of K1, COMPLETED when
\* the command started, is PENDING in the checkpoint, next to a FAILED one.
C37_Witness ==
    /\ pc = "none"
    /\ ret.op = "main"
    /\ ret.done
    /\ ret.argv = <<"register", P, K1[1], K1[2], K1[3], "out/a.wav">>
    /\ DictHas(hist.before, KeyId(K1))
    /\ DictGet(hist.before, KeyId(K1)).status = COMPLETED
    /\ PersistedStatus(fs, K1) = StatusValue(PENDING)
    /\ PersistedStatus(fs, K2) = StatusValue(FAILED)

(***************************************************************************)
(* Termination of the batch (SpecDriverLive)                               *)
(***************************************************************************)
\* The driver has gone through its list and the checkpoint has every task
\* of the list COMPLETED.
BatchDone ==
    /\ drv.step = "done"
    /\ pc = "none"
    /\ \A n \in 1..Len(TaskList) : HasCompletedRecord(Persisted(fs, now), TaskList[n])

(* C38: when the driver is killed finitely often, the work always succeeds *)
(* and no save fails, the driver eventually terminates with every task of  *)
(* its list COMPLETED in the checkpoint, and stays so.                     *)
C38_BatchTerminatesCompleted == <>[]BatchDone

\* The driver has terminated with every task COMPLETED after it was killed
\* MaxCrashes times, and in its last run it skipped a task that an earlier
\* run had completed.
C38_Witness ==
    /\ BatchDone
    /\ drv.crashes = MaxCrashes
    /\ drv.skipped
\* Session v has opened its temporary path (line 122).
Saving(v) == v.pc \in {"save_open", "save_close", "save_done", "done"}
\* The save of session v has the checkpoint path itself open for writing.
WritesInPlace(v) == v.pc = "save_open" /\ v.handle = v.path
\* The replace of session v moved a text over its checkpoint path that is
\* not the text v wrote.
InstalledForeign(v) == v.ok /\ v.installed # v.closed

\* C39: for every checkpoint path the temporary file save_checkpoint writes
\* is another path than the checkpoint, and two distinct checkpoint paths of
\* one directory never use the same temporary path; so no save has its own
\* checkpoint path open for writing, and no replace installs a text that
\* the session did not write.
C39_TempPathOfItsOwn ==
    /\ \A i \in Invocations :
          Saving(inv[i]) => TempFile(inv[i].path) # inv[i].path
    /\ \A i, j \in Invocations :
          (/\ Saving(inv[i]) /\ Saving(inv[j])
           /\ inv[i].path # inv[j].path /\ inv[i].path.dir = inv[j].path.dir)
          => TempFile(inv[i].path) # TempFile(inv[j].path)
    /\ \A i \in Invocations : ~WritesInPlace(inv[i]) /\ ~InstalledForeign(inv[i])

\* The same consequences hold for sessions whose paths have stems of their
\* own and no ".tmp" suffix.
TempPathOfItsOwnForOtherStems ==
    (\A i, j \in Invocations :
        /\ inv[i].path.suffix # ".tmp"
        /\ (i # j => inv[i].path.stem # inv[j].path.stem))
    => \A i \in Invocations : ~WritesInPlace(inv[i]) /\ ~InstalledForeign(inv[i])

\* A session on ckpt/session.tmp has truncated its own checkpoint.
InPlaceTruncated ==
    \E i \in Invocations :
        /\ WritesInPlace(inv[i])
        /\ inv[i].old # NoFile
        /\ fs[inv[i].path] = EmptyFile
\* A session has moved the other session's text over its own checkpoint path.
ForeignInstalled == \E i \in Invocations : InstalledForeign(inv[i])

=============================================================================
